---- MODULE Spec2Model ----
(***************************************************************************)
(* Elytra: a Minecraft 1.16.5 (protocol 754) server.                       *)
(*                                                                         *)
(* The model covers the framed byte buffer (MinecraftPacketBuffer), the    *)
(* per-connection task (handle_connection, handle_handshake_next_state,    *)
(* handle_play_state), the session manager and the keep-alive ticker.      *)
(* Bytes are the integers 0..255; 64-bit and 32-bit wire values are kept   *)
(* as their big-endian byte sequences.                                     *)
(***************************************************************************)
EXTENDS Integers, Sequences, FiniteSets, TLC

(***************************************************************************)
(* Bounds of the model.                                                    *)
(***************************************************************************)
\* the clock runs from 0 to MaxTime seconds
MaxTime == 31
\* frames the clients write, all connections together
MaxSends == 3
\* a client writes or closes only at the seconds that are multiples of ClientPeriod
ClientPeriod == 10

\* frames the logged-in clients write in a run that starts in the play state
MaxPlaySends == 2

\* critical sections the play tasks enter in a run that follows the lock
MaxBatches == 3

\* calls of set_block_state that a run makes on a packet section
MaxSectionCalls == 17

\* block types of the global palette that a run places (0 is air)
MaxBlockType == 17

\* calls of set_block_state that build the column of a chunk data packet
MaxSpawnCalls == 2

\* the longest byte sequence handed to read_varint
MaxVarintBytes == 6

\* the longest List and the largest Compound among the tags written
MaxTagLen == 2

\* the longest run of optimize_palette calls on one section
MaxOptimizeCalls == 2

\* the longest list of section indices handed to new_section_update
MaxUpdateLen == 2

\* the connections accepted by the listener
Conns == {1, 2}

(***************************************************************************)
(* Program constants.                                                      *)
(***************************************************************************)
\* let mut raw_buffer = [0u8; 1024];
BufSize == 1024
\* Duration::from_secs(10) in the play loop and should_send_keep_alive
KeepAliveInterval == 10
\* Duration::from_secs(30) in has_timed_out
KeepAliveTimeout == 30
\* interval(Duration::from_secs(1)) of the keep-alive checker
TickPeriod == 1
\* systime::unix_timestamp() at the moment the model clock reads 0
UnixEpochAtStart == 1

Pow2(n) == 2 ^ n

(***************************************************************************)
(* MinecraftPacketBuffer.  A buffer is a record [data, len]: data holds    *)
(* the bytes that were received and len is the length of the Vec<u8>; the  *)
(* bytes data does not cover are the zeroes the receive array was          *)
(* initialised with.                                                       *)
(***************************************************************************)
FromBytes(bytes, n) == [data |-> bytes, len |-> n]

ByteAt(buf, i) == IF i <= Len(buf.data) THEN buf.data[i] ELSE 0

\* the bytes at 0-based positions cur .. cur+n-1
Slice(buf, cur, n) == [i \in 1..n |-> ByteAt(buf, cur + i)]

(* write_varint: value is an i32; >>= on an i32 is an arithmetic shift, so  *)
(* for value < 0 the loop condition never becomes false.  fuel is the      *)
(* number of loop iterations followed; done tells whether the loop ended.  *)
RECURSIVE WriteVarintLoop(_, _)
WriteVarintLoop(value, fuel) ==
    IF value >= 0 /\ value < 128
    THEN [bytes |-> <<value>>, done |-> TRUE]
    ELSE IF fuel = 0
    THEN [bytes |-> <<>>, done |-> FALSE]
    ELSE LET rest == WriteVarintLoop(value \div 128, fuel - 1)
         IN [bytes |-> <<(value % 128) + 128>> \o rest.bytes, done |-> rest.done]

VarintFuel == 8

WriteVarint(value) == WriteVarintLoop(value, VarintFuel).bytes

(* read_varint: result |= ((byte & 0x7F) as i32) << shift, in i32.          *)
Shl32(x, shift) ==
    IF shift < 28 THEN x * Pow2(shift)
    ELSE LET h == x % 16
         IN IF h >= 8 THEN ((h - 8) * Pow2(28) - Pow2(30)) - Pow2(30)
            ELSE h * Pow2(28)

RECURSIVE ReadVarintLoop(_, _, _, _)
ReadVarintLoop(buf, cur, result, shift) ==
    IF cur >= buf.len
    THEN [ok |-> FALSE, err |-> "UnexpectedEof", val |-> 0, cur |-> cur]
    ELSE LET byte == ByteAt(buf, cur + 1)
             r    == result + Shl32(byte % 128, shift)
         IN IF byte < 128
            THEN [ok |-> TRUE, err |-> "", val |-> r, cur |-> cur + 1]
            ELSE IF shift + 7 >= 32
            THEN [ok |-> FALSE, err |-> "InvalidData", val |-> 0, cur |-> cur + 1]
            ELSE ReadVarintLoop(buf, cur + 1, r, shift + 7)

\* read_varint without the `shift >= 32` check: the result so far is returned
ReadVarintUnchecked(buf, cur) ==
    LET r == ReadVarintLoop(buf, cur, 0, 0)
    IN  IF r.err = "InvalidData" THEN [r EXCEPT !.ok = TRUE, !.err = ""] ELSE r

ReadVarint(buf, cur) == ReadVarintLoop(buf, cur, 0, 0)

(* String::from_utf8: well-formed UTF-8 (RFC 3629).                         *)
RECURSIVE IsUtf8(_)
IsUtf8(b) ==
    IF b = <<>> THEN TRUE
    ELSE LET n    == Len(b)
             b1   == b[1]
             Cont(i) == i <= n /\ b[i] >= 128 /\ b[i] <= 191
             Rest(k) == IsUtf8(SubSeq(b, k + 1, n))
         IN IF b1 < 128 THEN Rest(1)
            ELSE IF b1 >= 194 /\ b1 <= 223 THEN Cont(2) /\ Rest(2)
            ELSE IF b1 = 224 THEN Cont(2) /\ b[2] >= 160 /\ Cont(3) /\ Rest(3)
            ELSE IF b1 = 237 THEN Cont(2) /\ b[2] <= 159 /\ Cont(3) /\ Rest(3)
            ELSE IF b1 >= 225 /\ b1 <= 239 THEN Cont(2) /\ Cont(3) /\ Rest(3)
            ELSE IF b1 = 240 THEN Cont(2) /\ b[2] >= 144 /\ Cont(3) /\ Cont(4) /\ Rest(4)
            ELSE IF b1 = 244 THEN Cont(2) /\ b[2] <= 143 /\ Cont(3) /\ Cont(4) /\ Rest(4)
            ELSE IF b1 >= 241 /\ b1 <= 243 THEN Cont(2) /\ Cont(3) /\ Cont(4) /\ Rest(4)
            ELSE FALSE

(* read_string: VarInt length, then that many bytes, then from_utf8.  A    *)
(* negative length becomes a usize above every buffer length.              *)
ReadString(buf, cur) ==
    LET l == ReadVarint(buf, cur)
    IN IF ~l.ok THEN [ok |-> FALSE, err |-> l.err, val |-> <<>>, cur |-> l.cur]
       ELSE IF l.val < 0 \/ l.cur + l.val > buf.len
       THEN [ok |-> FALSE, err |-> "UnexpectedEof", val |-> <<>>, cur |-> l.cur]
       ELSE LET bytes == Slice(buf, l.cur, l.val)
            IN IF IsUtf8(bytes)
               THEN [ok |-> TRUE, err |-> "", val |-> bytes, cur |-> l.cur + l.val]
               ELSE [ok |-> FALSE, err |-> "InvalidData", val |-> <<>>,
                     cur |-> l.cur + l.val]

WriteString(bytes) == WriteVarint(Len(bytes)) \o bytes

(* read_u16 / write_u16: big-endian.                                        *)
ReadU16(buf, cur) ==
    IF cur + 2 > buf.len
    THEN [ok |-> FALSE, err |-> "UnexpectedEof", val |-> 0, cur |-> cur]
    ELSE [ok |-> TRUE, err |-> "",
          val |-> ByteAt(buf, cur + 1) * 256 + ByteAt(buf, cur + 2), cur |-> cur + 2]

WriteU16(v) == <<v \div 256, v % 256>>

(* Fixed-width big-endian reads of n bytes (read_i64, read_f64: 8 bytes,   *)
(* read_f32: 4 bytes); the value is kept as its byte sequence.             *)
ReadFixed(buf, cur, n) ==
    IF cur + n > buf.len
    THEN [ok |-> FALSE, err |-> "UnexpectedEof", val |-> <<>>, cur |-> cur]
    ELSE [ok |-> TRUE, err |-> "", val |-> Slice(buf, cur, n), cur |-> cur + n]

ReadI64(buf, cur) == ReadFixed(buf, cur, 8)
ReadF64(buf, cur) == ReadFixed(buf, cur, 8)
ReadF32(buf, cur) == ReadFixed(buf, cur, 4)

\* the 8 big-endian bytes of an i64 in 0 .. 65535
I64(n) == <<0, 0, 0, 0, 0, 0, n \div 256, n % 256>>

(***************************************************************************)
(* The client side of a connection: the frames a client writes.  A frame   *)
(* is <VarInt total_length> <VarInt packet_id> <payload>.                  *)
(***************************************************************************)
Frame(body) == WriteVarint(Len(body)) \o body

ProtocolVersion == 754
ServerPort == 25565

\* next_state values a client may put in its handshake
NextStates == {1, 2, 3}

\* usernames ("A", "B") as UTF-8 bytes
Users == {<<65>>, <<66>>}

HandshakeFrame(ns) ==
    Frame(<<0>> \o WriteVarint(ProtocolVersion) \o WriteString(<<>>)
          \o WriteU16(ServerPort) \o WriteVarint(ns))

StatusRequestFrame == Frame(<<0>>)

LoginStartFrame(u) == Frame(<<0>> \o WriteString(u))

KeepAliveFrame(id) == Frame(<<15>> \o id)

\* a keep-alive response with no length in front: packet id, then what
\* KeepAlivePacket::write_to_buffer writes (packet id, id)
RawKeepAlive(id) == <<15>> \o <<15>> \o id

\* f64 1.5 and 2.5 as big-endian bytes
F64_1_5 == <<63, 248, 0, 0, 0, 0, 0, 0>>
F64_2_5 == <<64, 4, 0, 0, 0, 0, 0, 0>>

\* Player Position (1.5, 64.0, 2.5, yaw 0, pitch 0): packet id 0x11, x, y, z, yaw, pitch
RawPlayerPosition ==
    <<17>> \o F64_1_5 \o <<64, 80, 0, 0, 0, 0, 0, 0>> \o F64_2_5
           \o <<0, 0, 0, 0>> \o <<0, 0, 0, 0>>

PlayerPositionFrame == Frame(RawPlayerPosition)

\* Client Settings: locale "en", view distance 8, chat enabled, colours,
\* all skin parts, right hand
ClientSettingsFrame == Frame(<<5>> \o WriteString(<<101, 110>>) \o <<8, 0, 1, 127, 1>>)

(***************************************************************************)
(* Packets the server writes.                                              *)
(***************************************************************************)
\* "OfflinePlayer:"
OfflinePlayerPrefix == <<79, 102, 102, 108, 105, 110, 101, 80, 108, 97, 121, 101, 114, 58>>

\* Uuid::new_v3(namespace, name): the MD5 digest is kept symbolic
UuidV3(namespace, name) == [version |-> 3, namespace |-> namespace, name |-> name]

LoginSuccessPacket(username) ==
    [id |-> 2, name |-> "LoginSuccess",
     uuid |-> UuidV3("NAMESPACE_DNS", OfflinePlayerPrefix \o username),
     username |-> username]

StatusResponsePacket ==
    [id |-> 0, name |-> "StatusResponse",
     json |-> [version |-> [name |-> "1.16.5", protocol |-> 754],
               players |-> [max |-> 100, online |-> 0, sample |-> <<>>],
               description |-> [text |-> "An Elytra Server"]]]

KeepAlivePacket(keep_alive_id) ==
    [id |-> 31, name |-> "KeepAlive", keep_alive_id |-> keep_alive_id]

\* f64 64.0, 65.0, 8.0 and 0.0, f32 0.0 as big-endian bytes
F64_0 == <<0, 0, 0, 0, 0, 0, 0, 0>>
F64_8 == <<64, 32, 0, 0, 0, 0, 0, 0>>
F64_64 == <<64, 80, 0, 0, 0, 0, 0, 0>>
F64_65 == <<64, 80, 64, 0, 0, 0, 0, 0>>
F32_0 == <<0, 0, 0, 0>>

PlayerPositionAndLook(x, y, z, yaw, pitch, flags, teleport_id) ==
    [id |-> 52, name |-> "PlayerPositionAndLook", x |-> x, y |-> y, z |-> z,
     yaw |-> yaw, pitch |-> pitch, flags |-> flags, teleport_id |-> teleport_id]

\* UpdateLightPacket::new fails when a light array is not 2048 bytes long
LightArrayLen == 2048
CreateDefaultLightArrayLen == 2048
CreateSpawnChunkLightOk == CreateDefaultLightArrayLen = LightArrayLen

\* the packets of a login that sends neither the held item nor the recipes
BootstrapPacketsShort(username) ==
    <<LoginSuccessPacket(username),
      [id |-> 36, name |-> "JoinGame"],
      [id |-> 16, name |-> "DeclareCommands"],
      [id |-> 64, name |-> "UpdateViewPosition", chunk_x |-> 0, chunk_z |-> 0],
      [id |-> 35, name |-> "UpdateLight"],
      [id |-> 34, name |-> "ChunkData"],
      PlayerPositionAndLook(F64_8, F64_65, F64_8, F32_0, F32_0, 0, 0)>>

(* The packets handle_handshake_next_state writes after a Login Start was  *)
(* parsed, in the order of its send_packet calls.                          *)
BootstrapPackets(username) ==
    <<LoginSuccessPacket(username),
      [id |-> 36, name |-> "JoinGame"],
      [id |-> 63, name |-> "HeldItemChange"],
      [id |-> 90, name |-> "DeclareRecipes"],
      [id |-> 16, name |-> "DeclareCommands"],
      [id |-> 64, name |-> "UpdateViewPosition", chunk_x |-> 0, chunk_z |-> 0]>>
    \o (IF CreateSpawnChunkLightOk THEN <<[id |-> 35, name |-> "UpdateLight"]>> ELSE <<>>)
    \o <<[id |-> 34, name |-> "ChunkData"],
         PlayerPositionAndLook(F64_8, F64_65, F64_8, F32_0, F32_0, 0, 0)>>

(***************************************************************************)
(* State.                                                                  *)
(***************************************************************************)
VARIABLES
    now,        \* the clock (Instant::now()), in seconds
    phase,      \* phase[c]: where connection c's task is
    chan,       \* chan[c]: the client's writes not yet read by the server, [kind, bytes]
    cclosed,    \* cclosed[c]: the client has closed its socket
    csent,      \* csent[c]: what the client has written: its next_state, its username, the number of frames
    out,        \* out[c]: the packets the server wrote to c's socket
    username,   \* username[c]: the username local of handle_play_state
    ka_local,   \* ka_local[c]: the last_keep_alive_time local of handle_play_state
    sessions,   \* SessionManager.sessions: username -> PlayerSession
    evicted,    \* connections whose session the keep-alive checker removed
    lastread,   \* lastread[c]: the last read of the play loop: the frames read, the match arm taken
    lock,       \* the tasks holding SESSION_MANAGER's RwLock
    task,       \* task[t]: where play task t is in a critical section, and the sends it still owes
    wire,       \* the socket writes made under the lock, in the order they were made
    column,     \* a ChunkColumn of the storage engine
    section,    \* a ChunkSection of the chunk data packet
    buffer,     \* the bytes ChunkDataPacket::write_to_buffer produced
    decoded,    \* what ChunkDataPacket::read_from_buffer made of them
    varint,     \* a VarInt on its way through write_varint and read_varint
    nbt,        \* a Tag on its way through Tag::write and Tag::read
    built       \* a ChunkDataPacket built from the column

conn_vars == <<now, phase, chan, cclosed, csent, out, username, ka_local, sessions,
               evicted, lastread>>

lock_vars == <<lock, task, wire>>

chunk_vars == <<column, section, buffer, decoded>>

codec_vars == <<varint, nbt, built>>

vars == <<conn_vars, lock_vars, chunk_vars, codec_vars>>

\* the play tasks whose use of the lock is followed
Tasks == {1, 2, 3}

\* no task is in a critical section
LockIdle ==
    /\ lock = {}
    /\ task = [t \in Tasks |-> [at |-> "idle", todo |-> {}, batch |-> 0]]
    /\ wire = <<>>

\* no chunk is held
ChunkIdle == column = <<>> /\ section = <<>> /\ buffer = <<>> /\ decoded = <<>>

\* nothing is being encoded or decoded
CodecIdle == varint = <<>> /\ nbt = <<>> /\ built = <<>>

Phases == {"Handshake", "Status", "Login", "Play", "Closed"}

RECURSIVE Concat(_)
Concat(frames) ==
    IF frames = <<>> THEN <<>>
    ELSE IF Len(frames) = 1 THEN frames[1]
    ELSE LET half == Len(frames) \div 2
         IN  Concat(SubSeq(frames, 1, half)) \o Concat(SubSeq(frames, half + 1, Len(frames)))

(* PlayerSession::new; writer names the connection whose socket's write    *)
(* half the session owns.                                                  *)
NewSession(name, c) ==
    [username |-> name, writer |-> c,
     last_keep_alive_id |-> I64(0),
     last_keep_alive_time |-> now,
     last_keep_alive_response |-> now,
     position |-> <<F64_0, F64_64, F64_0>>, yaw |-> F32_0, pitch |-> F32_0]

\* HashMap::insert / HashMap::remove
AddSession(map, session) ==
    [u \in (DOMAIN map) \cup {session.username} |->
        IF u = session.username THEN session ELSE map[u]]

RemoveSession(map, name) == [u \in (DOMAIN map) \ {name} |-> map[u]]

Elapsed(since) == now - since

ShouldSendKeepAlive(session) == Elapsed(session.last_keep_alive_time) >= KeepAliveInterval

Init ==
    /\ now = 0
    /\ phase = [c \in Conns |-> "Handshake"]
    /\ chan = [c \in Conns |-> <<>>]
    /\ cclosed = [c \in Conns |-> FALSE]
    /\ csent = [c \in Conns |-> [ns |-> 0, user |-> <<>>, n |-> 0]]
    /\ out = [c \in Conns |-> <<>>]
    /\ username = [c \in Conns |-> <<>>]
    /\ ka_local = [c \in Conns |-> 0]
    /\ sessions = [u \in {} |-> u]
    /\ evicted = {}
    /\ lastread = [c \in Conns |-> [frames |-> <<>>, arm |-> "None"]]
    /\ LockIdle
    /\ ChunkIdle
    /\ CodecIdle

(***************************************************************************)
(* The client.                                                             *)
(***************************************************************************)
\* the keep-alive ids the server wrote to c
ReceivedIds(c) ==
    {out[c][i].keep_alive_id : i \in {j \in DOMAIN out[c] : out[c][j].name = "KeepAlive"}}

\* what the client may write next: [kind, bytes] and the client's record after it
ClientMenu(c) ==
    LET cs == csent[c]
        Then(kind, bytes, ns, user) ==
            [kind |-> kind, bytes |-> bytes,
             after |-> [ns |-> ns, user |-> user, n |-> cs.n + 1]]
    IN IF cs.n = 0
       THEN {Then(<<"Handshake", ns>>, HandshakeFrame(ns), ns, <<>>) : ns \in NextStates}
       ELSE IF cs.ns = 1 /\ cs.n = 1
       THEN {Then(<<"StatusRequest">>, StatusRequestFrame, 1, <<>>)}
       ELSE IF cs.ns = 2 /\ cs.n = 1
       THEN {Then(<<"LoginStart", u>>, LoginStartFrame(u), 2, u) : u \in Users}
       ELSE IF cs.ns = 2
       THEN {Then(<<"KeepAlive", id>>, KeepAliveFrame(id), 2, cs.user) :
                 id \in ReceivedIds(c) \cup {I64(0)}}
            \cup {Then(<<"RawKeepAlive", id>>, RawKeepAlive(id), 2, cs.user) :
                      id \in ReceivedIds(c) \cup {I64(0)}}
            \cup {Then(<<"PlayerPosition">>, PlayerPositionFrame, 2, cs.user),
                  Then(<<"RawPlayerPosition">>, RawPlayerPosition, 2, cs.user)}
       ELSE {}

RECURSIVE TotalSent(_)
TotalSent(cs) ==
    IF cs = {} THEN 0
    ELSE LET c == CHOOSE x \in cs : TRUE IN csent[c].n + TotalSent(cs \ {c})

ClientTurn == now % ClientPeriod = 0

ClientSend(c) ==
    /\ ClientTurn
    /\ phase[c] # "Closed"
    /\ ~cclosed[c]
    /\ TotalSent(Conns) < MaxSends
    /\ \E f \in ClientMenu(c) :
        /\ chan' = [chan EXCEPT ![c] = Append(@, [kind |-> f.kind, bytes |-> f.bytes])]
        /\ csent' = [csent EXCEPT ![c] = f.after]
    /\ UNCHANGED <<now, phase, cclosed, out, username, ka_local, sessions, evicted, lastread,
                 lock_vars, chunk_vars, codec_vars>>

ClientClose(c) ==
    /\ ClientTurn
    /\ phase[c] # "Closed"
    /\ ~cclosed[c]
    /\ cclosed' = [cclosed EXCEPT ![c] = TRUE]
    /\ UNCHANGED <<now, phase, chan, csent, out, username, ka_local, sessions, evicted, lastread,
                 lock_vars, chunk_vars, codec_vars>>

(***************************************************************************)
(* socket.read: returns when bytes are there or the peer has closed.  The  *)
(* bytes of one or more client writes are returned at once (size 0: EOF).  *)
(***************************************************************************)
CanRead(c) == chan[c] # <<>> \/ cclosed[c]

ReadBytes(c, k) == Concat([i \in 1..k |-> chan[c][i].bytes])

ReadKinds(c, k) == [i \in 1..k |-> chan[c][i].kind]

ReadCounts(c) ==
    IF chan[c] = <<>> THEN {0}
    ELSE {k \in 1..Len(chan[c]) : Len(ReadBytes(c, k)) <= BufSize}

(* The bytes read leave the socket.  When the task ends its socket is      *)
(* dropped: what was not read is discarded.                                *)
ReadDone(c, k) ==
    chan' = [chan EXCEPT ![c] =
                IF phase'[c] = "Closed" THEN <<>> ELSE SubSeq(@, k + 1, Len(@))]

\* a write to c's socket can fail only once the client has closed it or
\* c's task has ended
MayFail(c) == cclosed[c] \/ phase[c] = "Closed"

(***************************************************************************)
(* handle_connection: the first read and HandshakePacket::read.            *)
(***************************************************************************)
ParseHandshake(buf) ==
    LET packet_length == ReadVarint(buf, 0)
        packet_id == ReadVarint(buf, packet_length.cur)
        protocol_version == ReadVarint(buf, packet_id.cur)
        server_address == ReadString(buf, protocol_version.cur)
        server_port == ReadU16(buf, server_address.cur)
        next_state == ReadVarint(buf, server_port.cur)
    IN IF ~packet_length.ok \/ ~packet_id.ok THEN [ok |-> FALSE, next_state |-> 0]
       ELSE IF packet_id.val # 0 THEN [ok |-> FALSE, next_state |-> 0]
       ELSE IF ~protocol_version.ok \/ ~server_address.ok \/ ~server_port.ok
               \/ ~next_state.ok
       THEN [ok |-> FALSE, next_state |-> 0]
       ELSE [ok |-> TRUE, next_state |-> next_state.val]

\* a dispatch that enters the play state without the login exchange
HandshakeNextPhaseSkipLogin(next_state) ==
    IF next_state = 1 THEN "Status"
    ELSE IF next_state = 2 THEN "Play"
    ELSE "Closed"

\* a dispatch without the rejecting arm
HandshakeNextPhaseNoReject(next_state) ==
    IF next_state = 1 THEN "Status" ELSE "Login"

\* match handshake.next_state { 1 => .., 2 => .., _ => panic!(..) }
HandshakeNextPhase(next_state) ==
    IF next_state = 1 THEN "Status"
    ELSE IF next_state = 2 THEN "Login"
    ELSE "Closed"

HandleConnection(c) ==
    /\ phase[c] = "Handshake"
    /\ CanRead(c)
    /\ \E k \in ReadCounts(c) :
        LET bytes == ReadBytes(c, k)
            handshake == ParseHandshake(FromBytes(bytes, Len(bytes)))
        IN /\ phase' = [phase EXCEPT ![c] =
                  IF k = 0 \/ ~handshake.ok THEN "Closed"
                  ELSE HandshakeNextPhase(handshake.next_state)]
           /\ ReadDone(c, k)
    /\ UNCHANGED <<now, cclosed, csent, out, username, ka_local, sessions, evicted, lastread,
                 lock_vars, chunk_vars, codec_vars>>

(***************************************************************************)
(* handle_handshake_next_state, arm 1: read once, write the status         *)
(* response, return.                                                       *)
(***************************************************************************)
StatusReply(failed) == IF failed THEN <<>> ELSE <<StatusResponsePacket>>

HandleStatus(c) ==
    /\ phase[c] = "Status"
    /\ CanRead(c)
    /\ \E k \in ReadCounts(c), failed \in BOOLEAN :
        /\ failed => MayFail(c)
        /\ out' = [out EXCEPT ![c] = @ \o StatusReply(failed)]
        /\ phase' = [phase EXCEPT ![c] = "Closed"]
        /\ ReadDone(c, k)
    /\ UNCHANGED <<now, cclosed, csent, username, ka_local, sessions, evicted, lastread,
                 lock_vars, chunk_vars, codec_vars>>

(***************************************************************************)
(* handle_handshake_next_state, arm 2: read once, LoginStartPacket::       *)
(* read_from_buffer on the whole receive array, the packets of the login,  *)
(* then handle_play_state up to its first read.                            *)
(***************************************************************************)
\* MinecraftPacketBuffer::from_bytes(raw_buffer.to_vec())
LoginStartBuffer(bytes) == FromBytes(bytes, BufSize)

\* LoginStartPacket::read_from_buffer
ParseLoginStart(buf) == ReadString(buf, 0)

HandleLogin(c) ==
    /\ phase[c] = "Login"
    /\ CanRead(c)
    /\ \E k \in ReadCounts(c) :
        LET login_start == ParseLoginStart(LoginStartBuffer(ReadBytes(c, k)))
            packets == BootstrapPackets(login_start.val)
        IN /\ IF ~login_start.ok
              THEN /\ phase' = [phase EXCEPT ![c] = "Closed"]
                   /\ UNCHANGED <<out, username, ka_local, sessions>>
              ELSE \E n \in 0..Len(packets) :
                   /\ n < Len(packets) => MayFail(c)
                   /\ out' = [out EXCEPT ![c] = @ \o SubSeq(packets, 1, n)]
                   /\ IF n < Len(packets)
                      THEN /\ phase' = [phase EXCEPT ![c] = "Closed"]
                           /\ UNCHANGED <<username, ka_local, sessions>>
                      ELSE /\ phase' = [phase EXCEPT ![c] = "Play"]
                           /\ username' = [username EXCEPT ![c] = login_start.val]
                           /\ ka_local' = [ka_local EXCEPT ![c] = now]
                           /\ sessions' = AddSession(sessions, NewSession(login_start.val, c))
           /\ ReadDone(c, k)
    /\ UNCHANGED <<now, cclosed, csent, evicted, lastread,
                 lock_vars, chunk_vars, codec_vars>>

(***************************************************************************)
(* handle_play_state: one turn of the loop, from the moment reader.read    *)
(* returns to the next reader.read (or to the return).                     *)
(***************************************************************************)
\* match packet_id { 0x0F => .., 0x11 => .., 0x05 => .., _ => .. }
Arm(packet_id) ==
    IF packet_id = 15 THEN "KeepAlive"
    ELSE IF packet_id = 17 THEN "PlayerPosition"
    ELSE IF packet_id = 5 THEN "ClientSettings"
    ELSE "Unknown"

\* the first VarInt of the bytes read is taken as the packet id
PlayPacketId(buf) == ReadVarint(buf, 0)

\* KeepAlivePacket::read_from_buffer
ReadKeepAlive(buf, cur) ==
    LET packet_id == ReadVarint(buf, cur)
    IN IF ~packet_id.ok THEN [ok |-> FALSE, keep_alive_id |-> <<>>]
       ELSE LET id == ReadI64(buf, packet_id.cur)
            IN [ok |-> id.ok, keep_alive_id |-> id.val]

\* if keep_alive.keep_alive_id == session.last_keep_alive_id
KeepAliveMatches(keep_alive_id, session) == keep_alive_id = session.last_keep_alive_id

\* arm 0x0F
KeepAliveArm(map, name, buf, cur) ==
    LET keep_alive == ReadKeepAlive(buf, cur)
    IN IF keep_alive.ok /\ name \in DOMAIN map
          /\ KeepAliveMatches(keep_alive.keep_alive_id, map[name])
       THEN [map EXCEPT ![name].last_keep_alive_response = now]
       ELSE map

\* PlayerSession::update_position
UpdatePosition(session, x, y, z, yaw, pitch) ==
    [session EXCEPT !.position = <<x, y, z>>, !.yaw = yaw, !.pitch = pitch]

(* broadcast_packet_except: the sessions are visited in the HashMap's      *)
(* order and the first failed send ends the visit.  A plan names the       *)
(* sessions written to and whether a send failed.                          *)
BroadcastPlans(map, excluded) ==
    LET targets == (DOMAIN map) \ excluded
    IN {p \in [sent : SUBSET targets, failed : BOOLEAN] :
           /\ ~p.failed => p.sent = targets
           /\ p.failed => \E f \in targets \ p.sent : MayFail(map[f].writer)}

Deliver(o, map, names, packet) ==
    [c \in Conns |->
        IF \E u \in names : map[u].writer = c THEN Append(o[c], packet) ELSE o[c]]

\* arm 0x11, with broadcast_position_updates
PlayerPositionArm(map, o, name, buf, cur, plan) ==
    LET x == ReadF64(buf, cur)
        y == ReadF64(buf, x.cur)
        z == ReadF64(buf, y.cur)
        yaw == ReadF32(buf, z.cur)
        pitch == ReadF32(buf, yaw.cur)
    IN IF ~x.ok \/ ~y.ok \/ ~z.ok \/ ~yaw.ok \/ ~pitch.ok
       THEN [ret |-> "err", sessions |-> map, out |-> o]
       ELSE IF name \notin DOMAIN map
       THEN [ret |-> "ok", sessions |-> map, out |-> o]
       ELSE LET updated == [map EXCEPT ![name] =
                               UpdatePosition(@, x.val, y.val, z.val, yaw.val, pitch.val)]
                packet == PlayerPositionAndLook(x.val, y.val, z.val, yaw.val, pitch.val, 0, 0)
            IN [ret |-> IF plan.failed THEN "err" ELSE "ok",
                sessions |-> updated,
                out |-> Deliver(o, updated, plan.sent, packet)]

Dispatch(c, buf, plan) ==
    LET packet_id == PlayPacketId(buf)
        arm == Arm(packet_id.val)
    IN IF ~packet_id.ok
       THEN [ret |-> "err", arm |-> "None", sessions |-> sessions, out |-> out]
       ELSE IF arm = "KeepAlive"
       THEN [ret |-> "ok", arm |-> arm,
             sessions |-> KeepAliveArm(sessions, username[c], buf, packet_id.cur),
             out |-> out]
       ELSE IF arm = "PlayerPosition"
       THEN [arm |-> arm] @@
            PlayerPositionArm(sessions, out, username[c], buf, packet_id.cur, plan)
       ELSE [ret |-> "ok", arm |-> arm, sessions |-> sessions, out |-> out]

\* systime::unix_timestamp()
UnixTimestamp == I64(UnixEpochAtStart + now)

\* if last_keep_alive_time.elapsed() >= Duration::from_secs(10)
KeepAliveDue(c) == Elapsed(ka_local[c]) >= KeepAliveInterval

(* The head of the loop: the keep-alive, sent when the task's own timer    *)
(* says so, to the session found under the task's username.                *)
KeepAliveStep(c, d, kfail) ==
    LET name == username[c]
    IN IF d.ret = "err" \/ ~KeepAliveDue(c)
       THEN [ret |-> d.ret, sessions |-> d.sessions, out |-> d.out, ka_local |-> ka_local[c]]
       ELSE IF name \notin DOMAIN d.sessions
       THEN [ret |-> "ok", sessions |-> d.sessions, out |-> d.out, ka_local |-> now]
       ELSE LET stamped == [d.sessions EXCEPT
                               ![name].last_keep_alive_id = UnixTimestamp,
                               ![name].last_keep_alive_time = now]
            IN IF kfail
               THEN [ret |-> "err", sessions |-> stamped, out |-> d.out,
                     ka_local |-> ka_local[c]]
               ELSE [ret |-> "ok", sessions |-> stamped,
                     out |-> Deliver(d.out, stamped, {name}, KeepAlivePacket(UnixTimestamp)),
                     ka_local |-> now]

KeepAliveMayFail(c, d) ==
    /\ d.ret = "ok"
    /\ KeepAliveDue(c)
    /\ username[c] \in DOMAIN d.sessions
    /\ MayFail(d.sessions[username[c]].writer)

PlayRead(c) ==
    /\ phase[c] = "Play"
    /\ CanRead(c)
    /\ \E k \in ReadCounts(c) :
        /\ IF k = 0
           THEN /\ sessions' = RemoveSession(sessions, username[c])
                /\ phase' = [phase EXCEPT ![c] = "Closed"]
                /\ UNCHANGED <<out, ka_local, lastread>>
           ELSE \E plan \in BroadcastPlans(sessions, {username[c]}), kfail \in BOOLEAN :
                LET bytes == ReadBytes(c, k)
                    d == Dispatch(c, FromBytes(bytes, Len(bytes)), plan)
                    r == KeepAliveStep(c, d, kfail)
                IN /\ kfail => KeepAliveMayFail(c, d)
                   /\ sessions' = r.sessions
                   /\ out' = r.out
                   /\ ka_local' = [ka_local EXCEPT ![c] = r.ka_local]
                   /\ phase' = [phase EXCEPT ![c] = IF r.ret = "err" THEN "Closed" ELSE "Play"]
                   /\ lastread' = [lastread EXCEPT ![c] =
                          [frames |-> ReadKinds(c, k), arm |-> d.arm]]
        /\ ReadDone(c, k)
    /\ UNCHANGED <<now, cclosed, csent, username, evicted,
                 lock_vars, chunk_vars, codec_vars>>

(***************************************************************************)
(* keep_alive_checker: every second, check_keep_alives and remove_session  *)
(* for each name it returns.                                               *)
(***************************************************************************)
\* a timeout test that lets the thirtieth second pass
HasTimedOutStrict(session, t) == t - session.last_keep_alive_response > KeepAliveTimeout

\* PlayerSession::has_timed_out at time t
HasTimedOut(session, t) == t - session.last_keep_alive_response >= KeepAliveTimeout

\* SessionManager::check_keep_alives at time t
CheckKeepAlives(map, t) == {u \in DOMAIN map : HasTimedOut(map[u], t)}

\* every task is waiting in a read that has nothing to return
Quiescent == \A c \in Conns : phase[c] = "Closed" \/ ~CanRead(c)

\* a task is still running, or the manager still holds a session
Live == (\E c \in Conns : phase[c] # "Closed") \/ DOMAIN sessions # {}

(* The tasks handle what has arrived within the second it arrived: the     *)
(* clock moves on when they are all waiting.  Once every task has ended    *)
(* and the manager is empty the ticker finds nothing to do: the run is     *)
(* followed no further.                                                    *)
Tick ==
    /\ now < MaxTime
    /\ Quiescent
    /\ Live
    /\ now' = now + TickPeriod
    /\ LET to_remove == CheckKeepAlives(sessions, now')
       IN /\ sessions' = [u \in (DOMAIN sessions) \ to_remove |-> sessions[u]]
          /\ evicted' = evicted \cup {sessions[u].writer : u \in to_remove}
    /\ UNCHANGED <<phase, chan, cclosed, csent, out, username, ka_local, lastread,
                 lock_vars, chunk_vars, codec_vars>>

Next ==
    \/ \E c \in Conns : ClientSend(c)
    \/ \E c \in Conns : ClientClose(c)
    \/ \E c \in Conns : HandleConnection(c)
    \/ \E c \in Conns : HandleStatus(c)
    \/ \E c \in Conns : HandleLogin(c)
    \/ \E c \in Conns : PlayRead(c)
    \/ Tick

Spec == Init /\ [][Next]_vars

(* Every task runs on the tokio runtime and the ticker on its interval: a  *)
(* handler whose read can return is eventually run.  Nothing obliges a     *)
(* client to write or to close.                                            *)
ServerStep(c) ==
    HandleConnection(c) \/ HandleStatus(c) \/ HandleLogin(c) \/ PlayRead(c)

\* the state predicate that enables ServerStep(c)
CanStep(c) == phase[c] # "Closed" /\ CanRead(c)

\* weak fairness of ServerStep(c), with its enabling condition written out
FairStep(c) == []<>(~CanStep(c)) \/ []<><<ServerStep(c)>>_vars

FairSpec == Spec /\ WF_vars(Tick) /\ \A c \in Conns : FairStep(c)

(***************************************************************************)
(* Runs that start in the play state: every connection has logged in, as   *)
(* "A" on connection 1 and "B" on connection 2, in the second 0.           *)
(***************************************************************************)
LoginUser(c) == IF c = 1 THEN <<65>> ELSE <<66>>

\* the username the login arm takes from LoginUser(c)'s Login Start
LoginName(c) == ParseLoginStart(LoginStartBuffer(LoginStartFrame(LoginUser(c)))).val

RECURSIVE AddSessions(_, _)
AddSessions(map, cs) ==
    IF cs = {} THEN map
    ELSE LET c == CHOOSE x \in cs : \A y \in cs : x <= y
         IN AddSessions(AddSession(map, NewSession(LoginName(c), c)), cs \ {c})

PlayInit ==
    /\ now = 0
    /\ phase = [c \in Conns |-> "Play"]
    /\ chan = [c \in Conns |-> <<>>]
    /\ cclosed = [c \in Conns |-> FALSE]
    /\ csent = [c \in Conns |-> [ns |-> 2, user |-> LoginUser(c), n |-> 2]]
    /\ out = [c \in Conns |-> BootstrapPackets(LoginName(c))]
    /\ username = [c \in Conns |-> LoginName(c)]
    /\ ka_local = [c \in Conns |-> 0]
    /\ sessions = AddSessions([u \in {} |-> u], Conns)
    /\ evicted = {}
    /\ lastread = [c \in Conns |-> [frames |-> <<>>, arm |-> "None"]]
    /\ LockIdle
    /\ ChunkIdle
    /\ CodecIdle

\* frames written since the logins
PlaySent == TotalSent(Conns) - 2 * Cardinality(Conns)

\* a logged-in client writes a play packet
PlayerSend(c) ==
    /\ ClientTurn
    /\ phase[c] = "Play"
    /\ ~cclosed[c]
    /\ PlaySent < MaxPlaySends
    /\ \E f \in ClientMenu(c) :
        /\ chan' = [chan EXCEPT ![c] = Append(@, [kind |-> f.kind, bytes |-> f.bytes])]
        /\ csent' = [csent EXCEPT ![c] = f.after]
    /\ UNCHANGED <<now, phase, cclosed, out, username, ka_local, sessions, evicted, lastread,
                 lock_vars, chunk_vars, codec_vars>>

PlayNext ==
    \/ \E c \in Conns : PlayerSend(c)
    \/ \E c \in Conns : ClientClose(c)
    \/ \E c \in Conns : PlayRead(c)
    \/ Tick

PlaySpec == PlayInit /\ [][PlayNext]_vars

(***************************************************************************)
(* The lock.  SESSION_MANAGER is a tokio RwLock; every send of the play    *)
(* loop is made through the guard that write().await returned, one await   *)
(* per session written.  These runs follow the lock alone: three play      *)
(* tasks whose sessions are in the manager throughout.                     *)
(***************************************************************************)
\* a lock that is shared with whoever holds it
CanReadLock == TRUE

\* SESSION_MANAGER.write().await returns when no task holds the lock
CanWriteLock == lock = {}

RECURSIVE BatchesBegun(_)
BatchesBegun(ts) ==
    IF ts = {} THEN 0
    ELSE LET t == CHOOSE x \in ts : TRUE IN task[t].batch + BatchesBegun(ts \ {t})

Sending == {"keepalive", "broadcast"}

\* the task after it entered a critical section that owes a send to each of todo
Entered(t, at, todo) == [task EXCEPT ![t] = [at |-> at, todo |-> todo, batch |-> @.batch + 1]]

\* the head of the play loop: the keep-alive to the task's own session
BeginKeepAlive(t) ==
    /\ task[t].at = "idle"
    /\ BatchesBegun(Tasks) < MaxBatches
    /\ CanWriteLock
    /\ lock' = lock \cup {t}
    /\ task' = Entered(t, "keepalive", {t})
    /\ UNCHANGED <<wire, conn_vars, chunk_vars, codec_vars>>

\* arm 0x11: broadcast_position_updates to every session but the task's own
BeginBroadcast(t) ==
    /\ task[t].at = "idle"
    /\ BatchesBegun(Tasks) < MaxBatches
    /\ CanWriteLock
    /\ lock' = lock \cup {t}
    /\ task' = Entered(t, "broadcast", Tasks \ {t})
    /\ UNCHANGED <<wire, conn_vars, chunk_vars, codec_vars>>

(* One session.send_packet(..).await?: the packet is written, or the send  *)
(* fails and `?` leaves the function, dropping the guard.                  *)
SendOne(t) ==
    /\ task[t].at \in Sending
    /\ \E u \in task[t].todo, failed \in BOOLEAN :
        IF failed
        THEN /\ task' = [task EXCEPT ![t].at = "ended", ![t].todo = {}]
             /\ lock' = lock \ {t}
             /\ UNCHANGED wire
        ELSE /\ wire' = Append(wire, [by |-> t, at |-> task[t].at, batch |-> task[t].batch,
                                       to |-> u, holders |-> lock])
             /\ task' = [task EXCEPT ![t].todo = @ \ {u}]
             /\ UNCHANGED lock
    /\ UNCHANGED <<conn_vars, chunk_vars, codec_vars>>

\* the end of the block: the guard is dropped
Release(t) ==
    /\ task[t].at \in Sending
    /\ task[t].todo = {}
    /\ lock' = lock \ {t}
    /\ task' = [task EXCEPT ![t].at = "idle"]
    /\ UNCHANGED <<wire, conn_vars, chunk_vars, codec_vars>>

LockNext ==
    \/ \E t \in Tasks : BeginKeepAlive(t)
    \/ \E t \in Tasks : BeginBroadcast(t)
    \/ \E t \in Tasks : SendOne(t)
    \/ \E t \in Tasks : Release(t)

LockSpec == Init /\ [][LockNext]_vars

(***************************************************************************)
(* Chunks.  A u64 is the set of the positions of its one bits, so that     *)
(* | is \cup, & is \cap, ! is the complement in 0..63 and a shift moves    *)
(* the positions, dropping those that leave the word.                      *)
(***************************************************************************)
Word == 0 .. 63
\* value as u64
Bits(value) == {k \in 0 .. 30 : (value \div Pow2(k)) % 2 = 1}
RECURSIVE BitsValue(_)
\* a word below 2^31 as a number
BitsValue(w) ==
    IF w = {} THEN 0
    ELSE LET k == CHOOSE x \in w : TRUE IN Pow2(k) + BitsValue(w \ {k})
ShiftLeft(w, n) == {k + n : k \in w} \cap Word
ShiftRight(w, n) == {k - n : k \in w} \cap Word
\* (1u64 << n) - 1
Mask(n) == 0 .. (n - 1)
\* a Vec<u64>: its length and the one bits <<index, position>> of its words
Zeros(n) == [len |-> n, ones |-> {}]
LongAt(v, i) == {q[2] : q \in {r \in v.ones : r[1] = i}}
SetLong(v, i, w) ==
    [len |-> IF i >= v.len THEN i + 1 ELSE v.len,
     ones |-> {r \in v.ones : r[1] # i} \cup {<<i, k>> : k \in w}]

(* BlockState.  The table GLOBAL_PALETTE is generated when the crate is    *)
(* built; here its entry for id i is the state of block type i without     *)
(* properties, for the block types that a run places.                      *)
BlockStates == [block_type : 0 .. MaxBlockType, properties : {0}]
Air == [block_type |-> 0, properties |-> 0]
IsAir(state) == state.block_type = 0
GetGlobalId(state) == state.block_type
FromGlobalId(id) == [block_type |-> id, properties |-> 0]

(***************************************************************************)
(* elytra-wotra: ChunkSection and ChunkColumn.                             *)
(***************************************************************************)
\* ChunkSection::new
WotraSection ==
    [block_count |-> 0, direct |-> FALSE, bits_per_block |-> 4, palette |-> <<>>,
     data |-> Zeros(256)]

WotraBits(s) == IF s.direct THEN 13 ELSE s.bits_per_block

WotraGetDataValue(s, index) ==
    LET bits_per_value == WotraBits(s)
        values_per_long == 64 \div bits_per_value
        long_index == index \div values_per_long
        bit_offset == (index % values_per_long) * bits_per_value
    IN  IF long_index >= s.data.len THEN 0
        ELSE BitsValue(ShiftRight(LongAt(s.data, long_index), bit_offset)
                           \cap Mask(bits_per_value))

WotraSetDataValue(s, index, value) ==
    LET bits_per_value == WotraBits(s)
        values_per_long == 64 \div bits_per_value
        long_index == index \div values_per_long
        bit_offset == (index % values_per_long) * bits_per_value
        mask == Mask(bits_per_value)
        v == Bits(value) \cap mask
    IN  [s EXCEPT !.data =
            SetLong(@, long_index,
                    (LongAt(@, long_index) \cap (Word \ ShiftLeft(mask, bit_offset)))
                        \cup ShiftLeft(v, bit_offset))]

\* (y << 8) | (z << 4) | x
CellIndex(x, y, z) == y * 256 + z * 16 + x

WotraGetBlockStateAt(s, x, y, z) ==
    LET value == WotraGetDataValue(s, CellIndex(x, y, z))
    IN  IF s.direct THEN FromGlobalId(value)
        ELSE IF value >= Len(s.palette) THEN Air
        ELSE FromGlobalId(s.palette[value + 1])

\* state_to_index.get(&state): the index at which the state was pushed
StateToIndex(palette, state) ==
    {i \in 0 .. Len(palette) - 1 : palette[i + 1] = GetGlobalId(state)}

WotraSetBlockState(s, x, y, z, state) ==
    LET index == CellIndex(x, y, z)
    IN  IF s.direct THEN WotraSetDataValue(s, index, GetGlobalId(state))
        ELSE IF StateToIndex(s.palette, state) # {}
        THEN WotraSetDataValue(s, index, CHOOSE i \in StateToIndex(s.palette, state) : TRUE)
        ELSE WotraSetDataValue([s EXCEPT !.palette = Append(@, GetGlobalId(state))],
                               index, Len(s.palette))

\* the column that ChunkColumn::new returns: no section is present
EmptyColumn == [sections |-> [i \in 0 .. 15 |-> <<>>], heightmaps |-> <<>>, call |-> <<>>]

ColumnGetBlockState(col, x, y, z) ==
    LET section_y == y \div 16
        section_local_y == y % 16
    IN  IF section_y \in 0 .. 15 /\ col.sections[section_y] # <<>>
        THEN WotraGetBlockStateAt(col.sections[section_y], x, section_local_y, z)
        ELSE Air

\* get_section_mut makes the section when it is absent
ColumnSetBlockState(col, x, y, z, state) ==
    LET section_y == y \div 16
        section_local_y == y % 16
        made == IF col.sections[section_y] = <<>> THEN WotraSection
                ELSE col.sections[section_y]
    IN  IF section_y >= 16 THEN col
        ELSE [col EXCEPT !.sections[section_y] =
                  WotraSetBlockState(made, x, section_local_y, z, state)]

(* The calls that a run makes: any block at the first cell of the column   *)
(* and air or the first block at the last cell of the section above.       *)
Calls ==
    ({<<0, 0, 0>>} \X (BlockStates \ {Air}))
        \cup ({<<15, 31, 15>>} \X {Air, FromGlobalId(1)})

\* the global ids that the palette of the section at height y holds
PlacedIds(col, y) ==
    LET s == col.sections[y \div 16]
    IN  IF s = <<>> THEN {} ELSE {s.palette[i] : i \in DOMAIN s.palette}

\* ChunkColumn::new
ChunkColumnNew ==
    /\ column = <<>>
    /\ column' = EmptyColumn
    /\ UNCHANGED <<section, buffer, decoded, conn_vars, lock_vars, codec_vars>>

(* set_block_state(x, y, z, state) on the column.  The block types come in *)
(* the order of their numbers: the content of a palette depends on the     *)
(* types only through the order of their first use.                        *)
SetBlockState ==
    /\ column # <<>>
    /\ \E call \in Calls :
        LET cell == call[1]
            state == call[2]
        IN  /\ \A t \in 1 .. state.block_type - 1 : t \in PlacedIds(column, cell[2])
            /\ column' = [ColumnSetBlockState(column, cell[1], cell[2], cell[3], state)
                              EXCEPT !.call = call]
    /\ UNCHANGED <<section, buffer, decoded, conn_vars, lock_vars, codec_vars>>

ColumnNext == ChunkColumnNew \/ SetBlockState

ColumnSpec == Init /\ [][ColumnNext]_vars

(***************************************************************************)
(* elytra-protocol: the ChunkSection of the chunk data packet.             *)
(***************************************************************************)
\* Palette::new
PaletteNew(bits_per_block) ==
    IF bits_per_block >= 9 THEN [direct |-> TRUE, bits_per_block |-> 14, palette |-> <<>>]
    ELSE [direct |-> FALSE,
          bits_per_block |-> IF bits_per_block <= 4 THEN 4 ELSE bits_per_block,
          palette |-> <<>>]

\* ChunkSection::with_bits_per_block; ChunkSection::new is the case of 4 bits
WithBitsPerBlock(bits) ==
    [block_count |-> 0, bits_per_block |-> bits,
     data_array |-> Zeros((4096 * bits + 63) \div 64),
     sky_light |-> FALSE, palette |-> PaletteNew(bits), call |-> <<>>, calls |-> 0]

\* the value of cell index, read from one long or from two
PacketGetDataValue(s, index) ==
    LET bits == s.bits_per_block
        long_index == (index * bits) \div 64
        bit_offset == (index * bits) % 64
        bits_in_next == bit_offset + bits - 64
        low == ShiftRight(LongAt(s.data_array, long_index), bit_offset) \cap Mask(32)
        high == IF bit_offset + bits > 64 /\ long_index + 1 < s.data_array.len
                THEN ShiftLeft(LongAt(s.data_array, long_index + 1) \cap Mask(bits_in_next),
                               bits - bits_in_next) \cap Mask(32)
                ELSE {}
    IN  BitsValue((low \cup high) \cap Mask(bits))

PacketGetBlockState(s, x, y, z) ==
    LET value == PacketGetDataValue(s, y * 16 * 16 + z * 16 + x)
    IN  IF s.palette.direct THEN FromGlobalId(value)
        ELSE IF value >= Len(s.palette.palette) THEN Air
        ELSE FromGlobalId(s.palette.palette[value + 1])

(* The loop of resize_palette_if_needed: a section of new_bits in which    *)
(* set_block_state was called for every cell in the order y, z, x with the  *)
(* state that get_block_state returns for it.  Each call writes the bits of *)
(* its own cell, and a state enters the palette at its first cell.  A cell  *)
(* none of whose bits is one holds the value 0, so that only the cells that *)
(* hold a one bit (marked) and one other cell (blank) are decoded.  get[i] *)
(* is the global id of the state that the copied section holds at cell i.  *)
CopyOf(get, marked_cells, new_bits) ==
    LET new == WithBitsPerBlock(new_bits)
        Filled(old, rank, marked, blank) ==
            LET value(i) == LET g == IF i \in marked THEN old[i] ELSE old[blank]
                            IN  IF new_bits >= 9 THEN g ELSE rank[g]
                written == IF Cardinality(marked) < 4096 /\ value(blank) # 0
                           THEN 0 .. 4095 ELSE marked
            IN  [new EXCEPT
                    !.palette.palette =
                        IF new_bits >= 9 THEN <<>>
                        ELSE [k \in 1 .. Cardinality(DOMAIN rank) |->
                                 CHOOSE g \in DOMAIN rank : rank[g] = k - 1],
                    !.data_array.ones =
                        UNION {{<<(i * new_bits + k) \div 64, (i * new_bits + k) % 64>> :
                                   k \in Bits(value(i))} : i \in written}]
        Ranked(old, first, marked, blank) ==
            Filled(old,
                   [g \in DOMAIN first |->
                       Cardinality({h \in DOMAIN first : first[h] < first[g]})],
                   marked, blank)
        Decoded(old, marked, blank) ==
            Ranked(old,
                   [g \in {old[i] : i \in DOMAIN old} |->
                       CHOOSE i \in DOMAIN old :
                           old[i] = g /\ \A j \in DOMAIN old : old[j] = g => i <= j],
                   marked, blank)
        Scanned(cells, marked, blank) ==
            Decoded([i \in cells |-> get[i]], marked, blank)
        Blank(marked, blank) ==
            Scanned(IF Cardinality(marked) = 4096 THEN marked ELSE marked \cup {blank},
                    marked, blank)
        Marked(marked) ==
            Blank(marked, CHOOSE i \in 0 .. Cardinality(marked) : i \notin marked)
    IN  Marked(marked_cells \cap (0 .. 4095))

\* the global id that the packet section s holds at the cell of index i
PacketCell(s, i) ==
    GetGlobalId(PacketGetBlockState(s, i % 16, i \div 256, (i \div 16) % 16))

\* the cells of the packet section s that hold a one bit
PacketMarked(s) == {(64 * q[1] + q[2]) \div s.bits_per_block : q \in s.data_array.ones}

ResizePaletteIfNeeded(s) ==
    LET bits_per_block == s.palette.bits_per_block
        new_bits == IF bits_per_block >= 8 THEN 14 ELSE bits_per_block + 1
        Updated(new_section) ==
            [s EXCEPT !.bits_per_block = new_section.bits_per_block,
                      !.data_array = new_section.data_array,
                      !.palette = new_section.palette]
    IN  IF ~s.palette.direct /\ Len(s.palette.palette) >= Pow2(bits_per_block)
        THEN Updated(CopyOf([i \in 0 .. 4095 |-> PacketCell(s, i)], PacketMarked(s), new_bits))
        ELSE s

\* the section after the call and the id that the call returns
GetOrAddPaletteEntry(s, state) ==
    LET global_id == GetGlobalId(state)
        Found(position) ==
            [section |-> s, id |-> CHOOSE i \in position : \A j \in position : i <= j]
        Added(resized) ==
            IF resized.palette.direct THEN [section |-> resized, id |-> global_id]
            ELSE [section |-> [resized EXCEPT !.palette.palette = Append(@, global_id)],
                  id |-> Len(resized.palette.palette)]
    IN  IF s.palette.direct THEN [section |-> s, id |-> global_id]
        ELSE IF StateToIndex(s.palette.palette, state) # {}
        THEN Found(StateToIndex(s.palette.palette, state))
        ELSE Added(ResizePaletteIfNeeded(s))

\* bits, long_index and bit_offset are taken before the palette entry is
PacketSetBlockState(s, x, y, z, state) ==
    LET index == y * 16 * 16 + z * 16 + x
        bits == s.bits_per_block
        long_index == (index * bits) \div 64
        bit_offset == (index * bits) % 64
        clear_mask == Word \ ShiftLeft(Mask(bits), bit_offset)
        bits_in_next == bit_offset + bits - 64
        next_long_index == long_index + 1
        Spanned(written, state_id) ==
            IF bit_offset + bits > 64 /\ next_long_index < written.len
            THEN SetLong(written, next_long_index,
                         (LongAt(written, next_long_index) \cap (Word \ Mask(bits_in_next)))
                             \cup ShiftRight(state_id, bits - bits_in_next))
            ELSE written
        Written(entry) ==
            [entry.section EXCEPT !.data_array =
                Spanned(SetLong(@, long_index,
                                (LongAt(@, long_index) \cap clear_mask)
                                    \cup ShiftLeft(Bits(entry.id), bit_offset)),
                        Bits(entry.id))]
    IN  Written(GetOrAddPaletteEntry(s, state))

\* the cells of a section that a run writes
SectionCells == {<<0, 0, 0>>, <<1, 0, 0>>}

(* The calls that a run makes: the first block at the first cell and any   *)
(* block at the second.                                                    *)
SectionCalls ==
    ({<<0, 0, 0>>} \X {FromGlobalId(1)}) \cup ({<<1, 0, 0>>} \X (BlockStates \ {Air}))

\* ChunkSection::new
ChunkSectionNew ==
    /\ section = <<>>
    /\ section' = WithBitsPerBlock(4)
    /\ UNCHANGED <<column, buffer, decoded, conn_vars, lock_vars, codec_vars>>

\* set_block_state on the section, the block types in the order of their numbers
SectionSetBlockState ==
    /\ section # <<>>
    /\ section.calls < MaxSectionCalls
    /\ \E call \in SectionCalls :
        LET cell == call[1]
            state == call[2]
        IN  /\ \A t \in 1 .. state.block_type - 1 :
                   t \in {section.palette.palette[i] : i \in DOMAIN section.palette.palette}
            /\ section' = [PacketSetBlockState(section, cell[1], cell[2], cell[3], state)
                               EXCEPT !.call = call, !.calls = @ + 1]
    /\ UNCHANGED <<column, buffer, decoded, conn_vars, lock_vars, codec_vars>>

SectionNext == ChunkSectionNew \/ SectionSetBlockState

SectionSpec == Init /\ [][SectionNext]_vars

(***************************************************************************)
(* elytra-wotra: calculate_heightmaps.                                     *)
(***************************************************************************)
(* highest_y of the column (x, z).  The loops run downwards and stop at    *)
(* the first block that is not air, which is the greatest such height; it  *)
(* is 0 when there is none.                                                *)
HighestY(col, x, z) ==
    LET found == {section_y * 16 + y : section_y \in {i \in 0 .. 15 : col.sections[i] # <<>>},
                                       y \in 0 .. 15}
        blocks == {h \in found :
                      ~IsAir(WotraGetBlockStateAt(col.sections[h \div 16], x, h % 16, z))}
    IN  IF blocks = {} THEN 0 ELSE CHOOSE h \in blocks : \A g \in blocks : g <= h

\* the one bits that the entry of (x, z) puts into motion_blocking_data
HeightBits(x, z, highest_y) ==
    LET index == x + z * 16
        long_index == index \div 7
        bit_offset == (index % 7) * 9
        value == Bits(highest_y) \cap Mask(9)
    IN  IF long_index >= 36 THEN {}
        ELSE {<<long_index, k>> : k \in ShiftLeft(value, bit_offset)}
                 \cup IF (index % 7) > 5 /\ long_index < 35
                      THEN {<<long_index + 1, k>> : k \in ShiftRight(value, 63 - bit_offset)}
                      ELSE {}

\* the Vec<Tag> that calculate_heightmaps leaves: one compound, one long array
MotionBlocking(col) ==
    <<[MOTION_BLOCKING |->
          [len |-> 36,
           ones |-> UNION {HeightBits(c[1], c[2], HighestY(col, c[1], c[2])) :
                              c \in (0 .. 15) \X (0 .. 15)}]]>>

(* The calls that a run makes before it asks for the heightmaps: air or    *)
(* one of the first two blocks at two cells of height 64.                  *)
HeightCalls == {<<0, 64, 0>>, <<7, 64, 0>>} \X {Air, FromGlobalId(1), FromGlobalId(2)}

PlaceBlock ==
    /\ column # <<>>
    /\ \E call \in HeightCalls :
        column' = [ColumnSetBlockState(column, call[1][1], call[1][2], call[1][3], call[2])
                       EXCEPT !.call = call]
    /\ UNCHANGED <<section, buffer, decoded, conn_vars, lock_vars, codec_vars>>

CalculateHeightmaps ==
    /\ column # <<>>
    /\ column' = [column EXCEPT !.heightmaps = MotionBlocking(column)]
    /\ UNCHANGED <<section, buffer, decoded, conn_vars, lock_vars, codec_vars>>

HeightNext == ChunkColumnNew \/ PlaceBlock \/ CalculateHeightmaps

HeightSpec == Init /\ [][HeightNext]_vars

(***************************************************************************)
(* elytra-protocol: ChunkDataPacket.                                       *)
(***************************************************************************)
\* recalculate_block_count: the cells with no one bit all hold palette entry 0
RecalculateBlockCount(s) ==
    LET Counted(marked) ==
            LET blank == CHOOSE i \in 0 .. Cardinality(marked) : i \notin marked
            IN  Cardinality({i \in marked : PacketCell(s, i) # 0})
                    + IF Cardinality(marked) < 4096 /\ PacketCell(s, blank) # 0
                      THEN 4096 - Cardinality(marked) ELSE 0
    IN  [s EXCEPT !.block_count = Counted(PacketMarked(s) \cap (0 .. 4095))]

(* new_full_chunk: a packet section for each section of the column, filled *)
(* cell by cell; the biomes are those of ChunkColumn::new.                 *)
NewFullChunk(col) ==
    LET present == {y \in 0 .. 15 : col.sections[y] # <<>>}
        Nth(k) == CHOOSE y \in present : Cardinality({w \in present : w < y}) = k - 1
        WotraMarked(ws) ==
            {q[1] * (64 \div WotraBits(ws)) + q[2] \div WotraBits(ws) : q \in ws.data.ones}
        Converted(ws) ==
            RecalculateBlockCount(
                CopyOf([i \in 0 .. 4095 |->
                           GetGlobalId(WotraGetBlockStateAt(ws, i % 16, i \div 256,
                                                            (i \div 16) % 16))],
                       WotraMarked(ws), 4))
    IN  [chunk_x |-> 0, chunk_z |-> 0, full_chunk |-> TRUE,
         primary_bit_mask |-> BitsValue(present),
         heightmaps |-> col.heightmaps,
         biomes |-> [i \in 1 .. 1024 |-> 127],
         sections |-> [k \in 1 .. Cardinality(present) |-> Converted(col.sections[Nth(k)])],
         block_entities |-> <<>>]

\* the big-endian bytes of the longs of a Vec<u64>
LongBytes(v) ==
    [i \in 1 .. 8 * v.len |->
        BitsValue({b \in 0 .. 7 : <<(i - 1) \div 8, 8 * (7 - ((i - 1) % 8)) + b>> \in v.ones})]

\* "MOTION_BLOCKING"
MotionBlockingName == <<77, 79, 84, 73, 79, 78, 95, 66, 76, 79, 67, 75, 73, 78, 71>>

(* write_to_buffer.  A heightmap is written by Tag::write with the name    *)
(* "": type 10, the entries (type 12, name, length, longs), type 0.  The   *)
(* sky light of a section is written only when it is Some.                 *)
WriteToBuffer(packet) ==
    LET Heightmap(tag) ==
            <<10, 0, 0>> \o <<12>> \o WriteU16(Len(MotionBlockingName)) \o MotionBlockingName
                \o <<0, 0, 0, tag.MOTION_BLOCKING.len>> \o LongBytes(tag.MOTION_BLOCKING)
                \o <<0>>
        Section(s) ==
            WriteU16(s.block_count) \o <<s.bits_per_block>>
                \o (IF s.palette.direct THEN <<>>
                    ELSE WriteVarint(Len(s.palette.palette))
                             \o Concat([i \in DOMAIN s.palette.palette |->
                                           WriteVarint(s.palette.palette[i])]))
                \o WriteVarint(s.data_array.len) \o LongBytes(s.data_array)
                \o [i \in 1 .. 2048 |-> 0]
                \o (IF s.sky_light THEN [i \in 1 .. 2048 |-> 0] ELSE <<>>)
        Sized(temp_buffer) == WriteVarint(Len(temp_buffer)) \o temp_buffer
    IN  WriteVarint(34) \o WriteVarint(packet.chunk_x) \o WriteVarint(packet.chunk_z)
            \o <<IF packet.full_chunk THEN 1 ELSE 0>>
            \o WriteVarint(packet.primary_bit_mask)
            \o Concat([i \in DOMAIN packet.heightmaps |-> Heightmap(packet.heightmaps[i])])
            \o (IF packet.full_chunk
                THEN Concat([i \in DOMAIN packet.biomes |-> WriteVarint(packet.biomes[i])])
                ELSE <<>>)
            \o Sized(Concat([i \in DOMAIN packet.sections |-> Section(packet.sections[i])]))
            \o WriteVarint(Len(packet.block_entities))

(* n calls of read_varint, one after the other: the values and the cursor  *)
(* after them, or the first error.                                         *)
RECURSIVE ReadVarints(_, _, _)
ReadVarints(buf, cur, n) ==
    IF n <= 0 THEN [ok |-> TRUE, err |-> "", val |-> <<>>, cur |-> cur]
    ELSE IF n = 1
    THEN LET One(v) == IF ~v.ok THEN v ELSE [v EXCEPT !.val = <<@>>]
         IN  One(ReadVarint(buf, cur))
    ELSE LET First(v) ==
                 IF ~v.ok THEN v
                 ELSE LET Second(r) == IF ~r.ok THEN r ELSE [r EXCEPT !.val = v.val \o @]
                      IN  Second(ReadVarints(buf, v.cur, n - n \div 2))
         IN  First(ReadVarints(buf, cur, n \div 2))

\* n big-endian longs as a Vec<u64>
ReadLongs(buf, cur, n) ==
    LET count == IF n < 0 THEN 0 ELSE n
    IN  IF cur + 8 * count > buf.len
        THEN [ok |-> FALSE, err |-> "UnexpectedEof", val |-> Zeros(0), cur |-> cur]
        ELSE [ok |-> TRUE, err |-> "", cur |-> cur + 8 * count,
              val |-> [len |-> count,
                       ones |-> {q \in (0 .. count - 1) \X Word :
                                    (ByteAt(buf, cur + 8 * q[1] + 8 - q[2] \div 8)
                                         \div Pow2(q[2] % 8)) % 2 = 1}]]

(* Tag::read on the buffer, for the tags that a heightmap is made of: the  *)
(* compound (10), the long array (12) and the end (0); the other valid     *)
(* types do not occur at the places where a tag is read.                   *)
RECURSIVE TagRead(_, _)
TagRead(buf, cur) ==
    LET type_id == ByteAt(buf, cur + 1)
        Fail(err, at) == [ok |-> FALSE, err |-> err, cur |-> at, name |-> <<>>, tag |-> <<>>]
        RECURSIVE Entries(_)
        Entries(first) ==
            IF ~first.ok THEN first
            ELSE IF first.tag.type = 0 THEN [first EXCEPT !.tag = <<>>]
            ELSE LET More(rest) ==
                         IF ~rest.ok THEN rest
                         ELSE [rest EXCEPT !.tag = <<<<first.name, first.tag>>>> \o @]
                 IN  More(Entries(TagRead(buf, first.cur)))
        Named(name_length) ==
            LET at == cur + 3
                name == Slice(buf, at, name_length)
                LongArray(length, longs) ==
                    IF ~longs.ok THEN Fail(longs.err, longs.cur)
                    ELSE [ok |-> TRUE, err |-> "", cur |-> longs.cur, name |-> name,
                          tag |-> [type |-> 12, value |-> longs.val]]
                Length(bytes) ==
                    LongArray(bytes, ReadLongs(buf, at + name_length + 4,
                                               IF bytes[1] >= 128 THEN 0
                                               ELSE ((bytes[1] * 256 + bytes[2]) * 256
                                                         + bytes[3]) * 256 + bytes[4]))
                Compound(entries) ==
                    IF ~entries.ok THEN Fail(entries.err, entries.cur)
                    ELSE [ok |-> TRUE, err |-> "", cur |-> entries.cur, name |-> name,
                          tag |-> [type |-> 10, value |-> entries.tag]]
            IN  IF at + name_length > buf.len THEN Fail("UnexpectedEof", at)
                ELSE IF ~IsUtf8(name) THEN Fail("InvalidData", at + name_length)
                ELSE IF type_id = 10
                THEN Compound(Entries(TagRead(buf, at + name_length)))
                ELSE IF type_id = 12
                THEN IF at + name_length + 4 > buf.len
                     THEN Fail("UnexpectedEof", at + name_length)
                     ELSE Length(Slice(buf, at + name_length, 4))
                ELSE Fail("InvalidData", at + name_length)
    IN  IF cur >= buf.len THEN Fail("UnexpectedEof", cur)
        ELSE IF type_id = 0
        THEN [ok |-> TRUE, err |-> "", cur |-> cur + 1, name |-> <<>>, tag |-> [type |-> 0]]
        ELSE IF cur + 3 > buf.len THEN Fail("UnexpectedEof", cur + 1)
        ELSE Named(ByteAt(buf, cur + 2) * 256 + ByteAt(buf, cur + 3))

(* One section of read_from_buffer: block count, bits per block, palette,  *)
(* data array, 2048 bytes of block light and, always, 2048 bytes of sky    *)
(* light.                                                                  *)
ReadSection(buf, cur) ==
    LET Fail(err, at) == [ok |-> FALSE, err |-> err, cur |-> at, val |-> <<>>]
        bits_per_block == ByteAt(buf, cur + 3)
        Light(block_count, palette, data) ==
            IF ~data.ok THEN Fail(data.err, data.cur)
            ELSE IF data.cur + 2048 > buf.len THEN Fail("UnexpectedEof", buf.len)
            ELSE IF data.cur + 4096 > buf.len THEN Fail("UnexpectedEof", buf.len)
            ELSE [ok |-> TRUE, err |-> "", cur |-> data.cur + 4096,
                  val |-> [WithBitsPerBlock(bits_per_block) EXCEPT
                              !.block_count = block_count,
                              !.palette = palette,
                              !.data_array = data.val,
                              !.sky_light = TRUE]]
        Data(block_count, palette, length) ==
            IF ~length.ok THEN Fail(length.err, length.cur)
            ELSE Light(block_count, palette, ReadLongs(buf, length.cur, length.val))
        Indirect(block_count, entries) ==
            IF ~entries.ok THEN Fail(entries.err, entries.cur)
            ELSE Data(block_count,
                      [direct |-> FALSE, bits_per_block |-> bits_per_block,
                       palette |-> entries.val],
                      ReadVarint(buf, entries.cur))
        Palette(block_count, palette_length) ==
            IF ~palette_length.ok THEN Fail(palette_length.err, palette_length.cur)
            ELSE Indirect(block_count,
                          ReadVarints(buf, palette_length.cur, palette_length.val))
        Counted(block_count) ==
            IF ~block_count.ok THEN Fail(block_count.err, block_count.cur)
            ELSE IF cur + 3 > buf.len THEN Fail("UnexpectedEof", cur + 2)
            ELSE IF bits_per_block < 9
            THEN Palette(block_count.val, ReadVarint(buf, cur + 3))
            ELSE Data(block_count.val, [direct |-> TRUE, bits_per_block |-> 14,
                                        palette |-> <<>>],
                      ReadVarint(buf, cur + 3))
    IN  Counted(ReadU16(buf, cur))

\* the sections of the heights y .. 15 that the mask names
RECURSIVE ReadSections(_, _, _, _)
ReadSections(buf, cur, primary_bit_mask, y) ==
    IF y >= 16 THEN [ok |-> TRUE, err |-> "", cur |-> cur, val |-> <<>>]
    ELSE IF y \notin Bits(primary_bit_mask)
    THEN ReadSections(buf, cur, primary_bit_mask, y + 1)
    ELSE LET Rest(s) ==
                 IF ~s.ok THEN s
                 ELSE LET More(r) == IF ~r.ok THEN r ELSE [r EXCEPT !.val = <<s.val>> \o @]
                      IN  More(ReadSections(buf, s.cur, primary_bit_mask, y + 1))
         IN  Rest(ReadSection(buf, cur))

(* read_from_buffer: the packet id, the header, one heightmap tag, 1024    *)
(* biomes of a full chunk, the size, the sections and the block entities.  *)
ReadFromBuffer(buf) ==
    LET Fail(err, at) == [ok |-> FALSE, err |-> err, cur |-> at, packet |-> <<>>]
        Entities(x, z, full_chunk, mask, heightmap, biomes, sections, count) ==
            IF ~count.ok THEN Fail(count.err, count.cur)
            ELSE IF count.val > 0 THEN Fail("UnexpectedEof", count.cur)
            ELSE [ok |-> TRUE, err |-> "", cur |-> count.cur,
                  packet |-> [chunk_x |-> x, chunk_z |-> z, full_chunk |-> full_chunk,
                              primary_bit_mask |-> mask,
                              heightmaps |-> <<heightmap>>,
                              biomes |-> biomes, sections |-> sections,
                              block_entities |-> <<>>]]
        Sections(x, z, full_chunk, mask, heightmap, biomes, sections) ==
            IF ~sections.ok THEN Fail(sections.err, sections.cur)
            ELSE Entities(x, z, full_chunk, mask, heightmap, biomes, sections.val,
                          ReadVarint(buf, sections.cur))
        Size(x, z, full_chunk, mask, heightmap, biomes, size) ==
            IF ~size.ok THEN Fail(size.err, size.cur)
            ELSE Sections(x, z, full_chunk, mask, heightmap, biomes,
                          ReadSections(buf, size.cur, mask, 0))
        Biomes(x, z, full_chunk, mask, heightmap, biomes) ==
            IF ~biomes.ok THEN Fail(biomes.err, biomes.cur)
            ELSE Size(x, z, full_chunk, mask, heightmap.tag, biomes.val,
                      ReadVarint(buf, biomes.cur))
        Heightmap(x, z, full_chunk, mask, heightmap) ==
            IF ~heightmap.ok THEN Fail(heightmap.err, heightmap.cur)
            ELSE Biomes(x, z, full_chunk, mask, heightmap,
                        ReadVarints(buf, heightmap.cur, IF full_chunk THEN 1024 ELSE 0))
        BitMask(x, z, full_chunk, mask) ==
            IF ~mask.ok THEN Fail(mask.err, mask.cur)
            ELSE Heightmap(x, z, full_chunk, mask.val, TagRead(buf, mask.cur))
        Bool(x, z) ==
            IF ~z.ok THEN Fail(z.err, z.cur)
            ELSE IF z.cur >= buf.len THEN Fail("UnexpectedEof", z.cur)
            ELSE BitMask(x, z.val, ByteAt(buf, z.cur + 1) # 0, ReadVarint(buf, z.cur + 1))
        ChunkZ(x) ==
            IF ~x.ok THEN Fail(x.err, x.cur) ELSE Bool(x.val, ReadVarint(buf, x.cur))
        ChunkX(packet_id) ==
            IF ~packet_id.ok THEN Fail(packet_id.err, packet_id.cur)
            ELSE IF packet_id.val # 34 THEN Fail("InvalidData", packet_id.cur)
            ELSE ChunkZ(ReadVarint(buf, packet_id.cur))
    IN  ChunkX(ReadVarint(buf, 0))

\* the column after the calls of a sequence
RECURSIVE PlaceAll(_, _)
PlaceAll(col, calls) ==
    IF calls = <<>> THEN col
    ELSE PlaceAll(ColumnSetBlockState(col, calls[1][1][1], calls[1][1][2], calls[1][1][3],
                                      calls[1][2]),
                  Tail(calls))

(* The spawn chunk of the server: a new column, some blocks set and,      *)
(* possibly, the heightmaps calculated.                                    *)
SpawnChunk ==
    /\ column = <<>>
    /\ \E n \in 0 .. MaxSpawnCalls, heightmaps \in BOOLEAN :
        \E calls \in [1 .. n -> HeightCalls \cup {<<<<3, 1, 3>>, FromGlobalId(1)>>}] :
            LET Built(col) ==
                    IF heightmaps THEN [col EXCEPT !.heightmaps = MotionBlocking(col)]
                    ELSE col
            IN  column' = Built(PlaceAll(EmptyColumn, calls))
    /\ UNCHANGED <<section, buffer, decoded, conn_vars, lock_vars, codec_vars>>

\* new_full_chunk on the column and write_to_buffer on a new buffer
WriteChunkData ==
    /\ column # <<>> /\ buffer = <<>>
    /\ buffer' = WriteToBuffer(NewFullChunk(column))
    /\ UNCHANGED <<column, section, decoded, conn_vars, lock_vars, codec_vars>>

\* read_from_buffer on the bytes written
ReadChunkData ==
    /\ buffer # <<>> /\ decoded = <<>>
    /\ decoded' = ReadFromBuffer(FromBytes(buffer, Len(buffer)))
    /\ UNCHANGED <<column, section, buffer, conn_vars, lock_vars, codec_vars>>

RoundTripNext == SpawnChunk \/ WriteChunkData \/ ReadChunkData

RoundTripSpec == Init /\ [][RoundTripNext]_vars

(***************************************************************************)
(* VarInt on its own: write_varint applied to an i32, read_varint applied  *)
(* to the bytes it produced, and read_varint applied to received bytes.    *)
(* varint = [value, raw, at, bytes, done, result]: raw tells that the      *)
(* bytes were received rather than written; done tells that the loop of    *)
(* write_varint ended.  For value < 0 the arithmetic shift keeps value     *)
(* below zero, so a loop that has not ended after VarintFuel iterations    *)
(* never ends.                                                             *)
(***************************************************************************)
MinI32 == (0 - 2147483647) - 1

VarintValues ==
    {0, 1, 2, 63, 64, 127, 128, 129, 255, 256, 300, 16383, 16384, 25565, 65535,
     2097151, 2097152, 268435455, 268435456, 2147483646, 2147483647,
     0 - 1, 0 - 2, 0 - 127, 0 - 128, 0 - 129, 0 - 16384, 0 - 2097152, 0 - 268435456,
     0 - 2147483647, MinI32}

VarintBytes == {1, 127, 128, 255}

RawVarints == UNION {[1 .. n -> VarintBytes] : n \in 0 .. MaxVarintBytes}

NoResult == [ok |-> FALSE, err |-> "", val |-> 0, cur |-> 0]

VarintInit ==
    /\ now = 0
    /\ phase = [c \in Conns |-> "Handshake"]
    /\ chan = [c \in Conns |-> <<>>]
    /\ cclosed = [c \in Conns |-> FALSE]
    /\ csent = [c \in Conns |-> [ns |-> 0, user |-> <<>>, n |-> 0]]
    /\ out = [c \in Conns |-> <<>>]
    /\ username = [c \in Conns |-> <<>>]
    /\ ka_local = [c \in Conns |-> 0]
    /\ sessions = [u \in {} |-> u]
    /\ evicted = {}
    /\ lastread = [c \in Conns |-> [frames |-> <<>>, arm |-> "None"]]
    /\ LockIdle
    /\ ChunkIdle
    /\ nbt = <<>>
    /\ built = <<>>
    /\ \/ \E value \in VarintValues :
             varint = [value |-> value, raw |-> FALSE, at |-> "value", bytes |-> <<>>,
                       done |-> FALSE, result |-> NoResult]
       \/ \E bytes \in RawVarints :
             varint = [value |-> 0, raw |-> TRUE, at |-> "bytes", bytes |-> bytes,
                       done |-> TRUE, result |-> NoResult]

\* buffer.write_varint(value) on a new buffer
WriteVarintStep ==
    /\ varint.at = "value"
    /\ LET w == WriteVarintLoop(varint.value, VarintFuel)
       IN  varint' = [varint EXCEPT !.bytes = w.bytes, !.done = w.done,
                                    !.at = IF w.done THEN "bytes" ELSE "writing"]
    /\ UNCHANGED <<nbt, built, conn_vars, lock_vars, chunk_vars>>

\* MinecraftPacketBuffer::from_bytes(bytes).read_varint()
ReadVarintStep ==
    /\ varint.at = "bytes"
    /\ varint' = [varint EXCEPT !.result = ReadVarint(FromBytes(varint.bytes, Len(varint.bytes)), 0),
                                !.at = "read"]
    /\ UNCHANGED <<nbt, built, conn_vars, lock_vars, chunk_vars>>

VarintNext == WriteVarintStep \/ ReadVarintStep

VarintSpec == VarintInit /\ [][VarintNext]_vars

(***************************************************************************)
(* elytra-nbt.  A Tag is <<type, value>>, type being get_type_id(): a Byte, *)
(* Short or Int holds its number; a Long, Float or Double holds its        *)
(* big-endian bytes; a ByteArray, IntArray or LongArray holds the sequence *)
(* of its elements, a String its UTF-8 bytes, a List the sequence of its   *)
(* tags and a Compound the map from names to tags.  A HashMap is iterated  *)
(* in an order of its own: Orders(tag) is the tag with every Compound as   *)
(* the sequence of <<name, tag>> entries of one of the possible iterations.*)
(***************************************************************************)
TagEnd == <<0, 0>>

\* write_i8 / write_i16 / write_i32 and read_i8 / read_i16 / read_i32, big-endian
WriteI8(v) == <<v % 256>>
WriteI16(v) == <<(v \div 256) % 256, v % 256>>
WriteI32(v) == <<(v \div 16777216) % 256, (v \div 65536) % 256, (v \div 256) % 256, v % 256>>
I8Of(b) == IF b[1] >= 128 THEN b[1] - 256 ELSE b[1]
I16Of(b) == IF b[1] >= 128 THEN (b[1] - 256) * 256 + b[2] ELSE b[1] * 256 + b[2]
I32Of(b) ==
    (IF b[1] >= 128 THEN b[1] - 256 ELSE b[1]) * 16777216 + (b[2] * 256 + b[3]) * 256 + b[4]

RECURSIVE Orders(_)
Orders(tag) ==
    IF tag[1] = 9
    THEN LET items == tag[2]
         IN  {<<9, v>> :
                 v \in {v \in [DOMAIN items -> UNION {Orders(items[i]) : i \in DOMAIN items}] :
                           \A i \in DOMAIN items : v[i] \in Orders(items[i])}}
    ELSE IF tag[1] = 10
    THEN LET map   == tag[2]
             names == DOMAIN map
             n     == Cardinality(names)
         IN  {<<10, [i \in 1 .. n |-> <<p[i], c[p[i]]>>]>> :
                 p \in {p \in [1 .. n -> names] : \A i, j \in 1 .. n : p[i] = p[j] => i = j},
                 c \in {c \in [names -> UNION {Orders(map[d]) : d \in names}] :
                           \A d \in names : c[d] \in Orders(map[d])}}
    ELSE {tag}

(* Tag::write and Tag::write_payload.                                      *)
RECURSIVE TagWrite(_, _), WritePayload(_)
TagWrite(tag, name) ==
    <<tag[1]>>
        \o (IF tag[1] # 0 THEN WriteU16(Len(name) % 65536) \o name ELSE <<>>)
        \o WritePayload(tag)

WritePayload(tag) ==
    LET v == tag[2]
    IN  CASE tag[1] = 0 -> <<>>
          [] tag[1] = 1 -> WriteI8(v)
          [] tag[1] = 2 -> WriteI16(v)
          [] tag[1] = 3 -> WriteI32(v)
          [] tag[1] \in {4, 5, 6} -> v
          [] tag[1] = 7 -> WriteI32(Len(v)) \o Concat([i \in DOMAIN v |-> WriteI8(v[i])])
          [] tag[1] = 8 -> WriteU16(Len(v) % 65536) \o v
          [] tag[1] = 9 ->
                <<IF v = <<>> THEN 0 ELSE v[1][1]>> \o WriteI32(Len(v))
                    \o Concat([i \in DOMAIN v |-> WritePayload(v[i])])
          [] tag[1] = 10 ->
                Concat([i \in DOMAIN v |-> TagWrite(v[i][2], v[i][1])]) \o TagWrite(TagEnd, <<>>)
          [] tag[1] = 11 -> WriteI32(Len(v)) \o Concat([i \in DOMAIN v |-> WriteI32(v[i])])
          [] tag[1] = 12 -> WriteI32(Len(v)) \o Concat([i \in DOMAIN v |-> v[i]])

(* Tag::read and Tag::read_payload on a Cursor over the bytes.  A negative *)
(* length makes Vec::with_capacity panic.                                  *)
RECURSIVE NbtRead(_, _), ReadPayload(_, _, _)
ReadPayload(buf, cur, type_id) ==
    LET Fail(err, at) == [ok |-> FALSE, err |-> err, cur |-> at, tag |-> TagEnd]
        Ok(at, value) ==
            [ok |-> TRUE, err |-> "", cur |-> at, tag |-> <<type_id, value>>]
        Fixed(n) == cur + n <= buf.len
        \* length elements of width bytes each
        Array(length, width) ==
            IF length < 0 THEN Fail("CapacityOverflow", cur + 4)
            ELSE IF length > (buf.len - (cur + 4)) \div width THEN Fail("UnexpectedEof", buf.len)
            ELSE Ok(cur + 4 + length * width,
                    [i \in 1 .. length |->
                        LET bytes == Slice(buf, cur + 4 + (i - 1) * width, width)
                        IN  IF width = 1 THEN I8Of(bytes)
                            ELSE IF width = 4 THEN I32Of(bytes) ELSE bytes])
        String(length) ==
            IF cur + 2 + length > buf.len THEN Fail("UnexpectedEof", buf.len)
            ELSE IF ~IsUtf8(Slice(buf, cur + 2, length))
            THEN Fail("InvalidData", cur + 2 + length)
            ELSE Ok(cur + 2 + length, Slice(buf, cur + 2, length))
        RECURSIVE Items(_, _, _, _)
        Items(list_type, todo, at, list) ==
            IF todo <= 0 THEN Ok(at, list)
            ELSE IF list_type = 0 THEN Ok(at, [i \in 1 .. todo |-> TagEnd])
            ELSE LET Pushed(item) ==
                         IF ~item.ok THEN Fail(item.err, item.cur)
                         ELSE Items(list_type, todo - 1, item.cur, Append(list, item.tag))
                 IN  Pushed(ReadPayload(buf, at, list_type))
        RECURSIVE CompoundEntries(_, _)
        CompoundEntries(at, compound) ==
            LET Inserted(entry) ==
                    IF ~entry.ok THEN Fail(entry.err, entry.cur)
                    ELSE IF entry.tag[1] = 0 THEN Ok(entry.cur, compound)
                    ELSE CompoundEntries(entry.cur,
                             [name \in (DOMAIN compound) \cup {entry.name} |->
                                 IF name = entry.name THEN entry.tag ELSE compound[name]])
            IN  Inserted(NbtRead(buf, at))
    IN  CASE type_id = 0 -> [ok |-> TRUE, err |-> "", cur |-> cur, tag |-> TagEnd]
          [] type_id = 1 ->
                IF Fixed(1) THEN Ok(cur + 1, I8Of(Slice(buf, cur, 1)))
                ELSE Fail("UnexpectedEof", buf.len)
          [] type_id = 2 ->
                IF Fixed(2) THEN Ok(cur + 2, I16Of(Slice(buf, cur, 2)))
                ELSE Fail("UnexpectedEof", buf.len)
          [] type_id = 3 ->
                IF Fixed(4) THEN Ok(cur + 4, I32Of(Slice(buf, cur, 4)))
                ELSE Fail("UnexpectedEof", buf.len)
          [] type_id \in {4, 6} ->
                IF Fixed(8) THEN Ok(cur + 8, Slice(buf, cur, 8))
                ELSE Fail("UnexpectedEof", buf.len)
          [] type_id = 5 ->
                IF Fixed(4) THEN Ok(cur + 4, Slice(buf, cur, 4))
                ELSE Fail("UnexpectedEof", buf.len)
          [] type_id = 7 ->
                IF Fixed(4) THEN Array(I32Of(Slice(buf, cur, 4)), 1)
                ELSE Fail("UnexpectedEof", buf.len)
          [] type_id = 8 ->
                IF Fixed(2) THEN String(ByteAt(buf, cur + 1) * 256 + ByteAt(buf, cur + 2))
                ELSE Fail("UnexpectedEof", buf.len)
          [] type_id = 9 ->
                IF ~Fixed(5) THEN Fail("UnexpectedEof", buf.len)
                ELSE IF I32Of(Slice(buf, cur + 1, 4)) < 0 THEN Fail("CapacityOverflow", cur + 5)
                ELSE Items(ByteAt(buf, cur + 1), I32Of(Slice(buf, cur + 1, 4)), cur + 5, <<>>)
          [] type_id = 10 -> CompoundEntries(cur, [name \in {} |-> TagEnd])
          [] type_id = 11 ->
                IF Fixed(4) THEN Array(I32Of(Slice(buf, cur, 4)), 4)
                ELSE Fail("UnexpectedEof", buf.len)
          [] type_id = 12 ->
                IF Fixed(4) THEN Array(I32Of(Slice(buf, cur, 4)), 8)
                ELSE Fail("UnexpectedEof", buf.len)
          [] OTHER -> Fail("InvalidData", cur)

NbtRead(buf, cur) ==
    LET Fail(err, at) == [ok |-> FALSE, err |-> err, cur |-> at, name |-> <<>>, tag |-> TagEnd]
        Named(name_length) ==
            LET name == Slice(buf, cur + 3, name_length)
                Payload(p) ==
                    IF ~p.ok THEN Fail(p.err, p.cur)
                    ELSE [ok |-> TRUE, err |-> "", cur |-> p.cur, name |-> name, tag |-> p.tag]
            IN  IF cur + 3 + name_length > buf.len THEN Fail("UnexpectedEof", buf.len)
                ELSE IF ~IsUtf8(name) THEN Fail("InvalidData", cur + 3 + name_length)
                ELSE Payload(ReadPayload(buf, cur + 3 + name_length, ByteAt(buf, cur + 1)))
    IN  IF cur >= buf.len THEN Fail("UnexpectedEof", cur)
        ELSE IF ByteAt(buf, cur + 1) = 0
        THEN [ok |-> TRUE, err |-> "", cur |-> cur + 1, name |-> <<>>, tag |-> TagEnd]
        ELSE IF cur + 3 > buf.len THEN Fail("UnexpectedEof", buf.len)
        ELSE Named(ByteAt(buf, cur + 2) * 256 + ByteAt(buf, cur + 3))

\* one tag of every constructor
Leaves ==
    {TagEnd,
     <<1, 0 - 1>>,
     <<2, 1234>>,
     <<3, 0 - 12345678>>,
     <<4, I64(300)>>,
     <<5, <<64, 72, 245, 195>>>>,
     <<6, F64_1_5>>,
     <<7, <<1, 0 - 2>>>>,
     <<8, <<72, 105>>>>,
     <<11, <<1, 0 - 1>>>>,
     <<12, <<I64(1)>>>>}

\* "", "a", "ab"
TagNames == {<<>>, <<97>>, <<97, 98>>}

\* "a", "b"
EntryNames == {<<97>>, <<98>>}

Lists(tags, n) ==
    {<<9, v>> : v \in UNION {[1 .. k -> tags] : k \in 0 .. n}}

Compounds(tags, n) ==
    {<<10, map>> :
        map \in UNION {[names -> tags] : names \in {d \in SUBSET EntryNames : Cardinality(d) <= n}}}

Nested == Lists(Leaves, MaxTagLen) \cup Compounds(Leaves, MaxTagLen)

Tags == Leaves \cup Nested \cup Lists(Nested, 1) \cup Compounds(Nested, 1)

NbtInit ==
    /\ now = 0
    /\ phase = [c \in Conns |-> "Handshake"]
    /\ chan = [c \in Conns |-> <<>>]
    /\ cclosed = [c \in Conns |-> FALSE]
    /\ csent = [c \in Conns |-> [ns |-> 0, user |-> <<>>, n |-> 0]]
    /\ out = [c \in Conns |-> <<>>]
    /\ username = [c \in Conns |-> <<>>]
    /\ ka_local = [c \in Conns |-> 0]
    /\ sessions = [u \in {} |-> u]
    /\ evicted = {}
    /\ lastread = [c \in Conns |-> [frames |-> <<>>, arm |-> "None"]]
    /\ LockIdle
    /\ ChunkIdle
    /\ varint = <<>>
    /\ built = <<>>
    /\ \E tag \in Tags, name \in TagNames :
          nbt = [tag |-> tag, name |-> name, at |-> "tag", bytes |-> <<>>,
                 result |-> [ok |-> FALSE, err |-> "", cur |-> 0, name |-> <<>>, tag |-> TagEnd]]

\* tag.write(&mut buffer, name)
WriteTag ==
    /\ nbt.at = "tag"
    /\ \E ordered \in Orders(nbt.tag) :
          nbt' = [nbt EXCEPT !.bytes = TagWrite(ordered, nbt.name), !.at = "bytes"]
    /\ UNCHANGED <<varint, built, conn_vars, lock_vars, chunk_vars>>

\* Tag::read(&mut Cursor::new(buffer))
ReadTag ==
    /\ nbt.at = "bytes"
    /\ nbt' = [nbt EXCEPT !.result = NbtRead(FromBytes(nbt.bytes, Len(nbt.bytes)), 0),
                          !.at = "read"]
    /\ UNCHANGED <<varint, built, conn_vars, lock_vars, chunk_vars>>

NbtNext == WriteTag \/ ReadTag

NbtSpec == NbtInit /\ [][NbtNext]_vars

(***************************************************************************)
(* optimize_palette.  The loops visit the cells with x outermost, then y,  *)
(* then z; the new palette holds the states in the order in which the      *)
(* loops first meet them.  The cells that hold no one bit all hold the     *)
(* same state: only the first of them in the order of the loops (blank)    *)
(* and the cells that hold a one bit (marked) are decoded.                 *)
(***************************************************************************)
\* (unique_state_count as f64).log2().ceil() as u8
CeilLog2(n) == IF n <= 1 THEN 0 ELSE CHOOSE b \in 1 .. 13 : Pow2(b - 1) < n /\ n <= Pow2(b)

\* choose_best_palette with 5 as the smallest width
ChooseBestPaletteFrom5(unique_state_count) ==
    LET bits_needed == CeilLog2(unique_state_count)
    IN  IF bits_needed <= 5 THEN [direct |-> FALSE, bits_per_block |-> 5]
        ELSE IF bits_needed <= 8 THEN [direct |-> FALSE, bits_per_block |-> bits_needed]
        ELSE [direct |-> TRUE, bits_per_block |-> 0]

ChooseBestPalette(unique_state_count) ==
    LET bits_needed == CeilLog2(unique_state_count)
    IN  IF bits_needed <= 4 THEN [direct |-> FALSE, bits_per_block |-> 4]
        ELSE IF bits_needed <= 8 THEN [direct |-> FALSE, bits_per_block |-> bits_needed]
        ELSE [direct |-> TRUE, bits_per_block |-> 0]

\* the cells of s that are decoded: the marked cells and the blank cell
WotraCells(s) ==
    LET per_long == 64 \div WotraBits(s)
        marked == {q[1] * per_long + q[2] \div WotraBits(s) : q \in s.data.ones} \cap (0 .. 4095)
        \* the cell that the loops visit as their r-th
        Visited(r) == ((r \div 16) % 16) * 256 + (r % 16) * 16 + (r \div 256)
        unmarked == {r \in 0 .. Cardinality(marked) : r <= 4095 /\ Visited(r) \notin marked}
    IN  [marked |-> marked,
         blank |-> {Visited(r) : r \in {r \in unmarked : \A q \in unmarked : r <= q}}]

WotraStateAt(s, i) == WotraGetBlockStateAt(s, i % 16, i \div 256, (i \div 16) % 16)

\* Palette::calculate_unique_states
CalculateUniqueStates(s) ==
    LET Counted(cells) == Cardinality({WotraStateAt(s, i) : i \in cells.marked \cup cells.blank})
    IN  Counted(WotraCells(s))

OptimizePalette(s) ==
    LET Rewritten(cells, best) ==
            LET decoded_cells == cells.marked \cup cells.blank
                Turn(i) == (i % 16) * 256 + (i \div 256) * 16 + ((i \div 16) % 16)
                Ranked(old) ==
                    LET ids == {old[i] : i \in decoded_cells}
                        First(id) == CHOOSE t \in {Turn(i) : i \in {j \in decoded_cells : old[j] = id}} :
                                        \A i \in decoded_cells : old[i] = id => t <= Turn(i)
                        NewIndex(id) == Cardinality({other \in ids : First(other) < First(id)})
                        bits == IF best.direct THEN 14 ELSE best.bits_per_block
                        Value(i) ==
                            LET id == IF i \in cells.marked THEN old[i]
                                      ELSE old[CHOOSE b \in cells.blank : TRUE]
                            IN  Bits(IF best.direct THEN id ELSE NewIndex(id)) \cap Mask(bits)
                        start_long(i) == (i * bits) \div 64
                        start_offset(i) == (i * bits) % 64
                        end_long(i) == ((i + 1) * bits - 1) \div 64
                    IN  [s EXCEPT
                           !.direct = best.direct,
                           !.bits_per_block = best.bits_per_block,
                           !.palette =
                               IF best.direct THEN <<>>
                               ELSE [k \in 1 .. Cardinality(ids) |->
                                        CHOOSE id \in ids : NewIndex(id) = k - 1],
                           !.data =
                               [len |-> (4096 * bits) \div 64,
                                ones |->
                                    UNION {{<<start_long(i), b>> :
                                               b \in ShiftLeft(Value(i), start_offset(i))}
                                           \cup (IF start_long(i) # end_long(i)
                                                 THEN {<<end_long(i), b>> :
                                                          b \in ShiftRight(Value(i),
                                                                           64 - start_offset(i))}
                                                 ELSE {})
                                           : i \in 0 .. 4095}]]
            IN  IF (IF best.direct THEN 13 ELSE best.bits_per_block) = WotraBits(s)
                THEN [section |-> s, changed |-> FALSE]
                ELSE [section |->
                          Ranked([i \in decoded_cells |-> GetGlobalId(WotraStateAt(s, i))]),
                      changed |-> TRUE]
    IN  Rewritten(WotraCells(s), ChooseBestPalette(CalculateUniqueStates(s)))

(* optimize_palette on the section of the column at section height y; the *)
(* call is recorded with its result and with its place in a run of calls   *)
(* on that section.                                                        *)
Optimize ==
    /\ column # <<>>
    /\ \E y \in 0 .. 15 :
          LET nth == IF Len(column.call) = 4 /\ column.call[2] = y THEN column.call[4] + 1
                     ELSE 1
              Done(r) == column' = [column EXCEPT !.sections[y] = r.section,
                                                  !.call = <<"optimize", y, r.changed, nth>>]
          IN  /\ column.sections[y] # <<>>
              /\ nth <= MaxOptimizeCalls
              /\ Done(OptimizePalette(column.sections[y]))
    /\ UNCHANGED <<section, buffer, decoded, conn_vars, lock_vars, codec_vars>>

OptimizeNext == ChunkColumnNew \/ SetBlockState \/ Optimize

OptimizeSpec == Init /\ [][OptimizeNext]_vars

(***************************************************************************)
(* Runs in which a second client logs in while the first plays: connection *)
(* 1 has logged in as "A" in the second 0, and connection 2 has completed  *)
(* its handshake and written its Login Start, for "A" or for "B".          *)
(***************************************************************************)
RejoinInit ==
    /\ now = 0
    /\ phase = [c \in Conns |-> IF c = 1 THEN "Play" ELSE "Login"]
    /\ \E u \in Users :
          /\ chan = [c \in Conns |->
                        IF c = 1 THEN <<>>
                        ELSE <<[kind |-> <<"LoginStart", u>>, bytes |-> LoginStartFrame(u)]>>]
          /\ csent = [c \in Conns |->
                         [ns |-> 2, user |-> IF c = 1 THEN LoginUser(1) ELSE u, n |-> 2]]
    /\ cclosed = [c \in Conns |-> FALSE]
    /\ out = [c \in Conns |-> IF c = 1 THEN BootstrapPackets(LoginName(1)) ELSE <<>>]
    /\ username = [c \in Conns |-> IF c = 1 THEN LoginName(1) ELSE <<>>]
    /\ ka_local = [c \in Conns |-> 0]
    /\ sessions = AddSessions([u \in {} |-> u], {1})
    /\ evicted = {}
    /\ lastread = [c \in Conns |-> [frames |-> <<>>, arm |-> "None"]]
    /\ LockIdle
    /\ ChunkIdle
    /\ CodecIdle

RejoinNext ==
    \/ \E c \in Conns : HandleLogin(c)
    \/ \E c \in Conns : PlayerSend(c)
    \/ \E c \in Conns : ClientClose(c)
    \/ \E c \in Conns : PlayRead(c)
    \/ Tick

RejoinSpec == RejoinInit /\ [][RejoinNext]_vars

(***************************************************************************)
(* Arm 0x11 statement by statement, for three play tasks of which the      *)
(* first two have logged in under one username: the packet is read, the    *)
(* manager is locked, update_position stores the position in the session   *)
(* found under the task's username, broadcast_position_updates builds the  *)
(* packet from the position stored there and sends it to every other       *)
(* session, and the guard is dropped.  task[t] also holds the position     *)
(* read (trigger) and the packet built.                                    *)
(***************************************************************************)
PositionUser(t) == IF t = 3 THEN LoginName(2) ELSE LoginName(1)

\* x, y, z, yaw, pitch of the Player Position packets the clients send
TriggerPositions ==
    {<<F64_1_5, F64_64, F64_2_5, F32_0, F32_0>>, <<F64_8, F64_65, F64_0, F32_0, F32_0>>}

PositionInit ==
    /\ now = 0
    /\ phase = [c \in Conns |-> "Play"]
    /\ chan = [c \in Conns |-> <<>>]
    /\ cclosed = [c \in Conns |-> FALSE]
    /\ csent = [c \in Conns |-> [ns |-> 2, user |-> LoginUser(c), n |-> 2]]
    /\ out = [c \in Conns |-> BootstrapPackets(LoginName(c))]
    /\ username = [c \in Conns |-> LoginName(c)]
    /\ ka_local = [c \in Conns |-> 0]
    /\ sessions = AddSession(AddSession(AddSession([u \in {} |-> u],
                                                   NewSession(PositionUser(1), 1)),
                                        NewSession(PositionUser(2), 2)),
                             NewSession(PositionUser(3), 3))
    /\ evicted = {}
    /\ lastread = [c \in Conns |-> [frames |-> <<>>, arm |-> "None"]]
    /\ lock = {}
    /\ task = [t \in Tasks |-> [at |-> "idle", todo |-> {}, batch |-> 0,
                                trigger |-> <<>>, packet |-> <<>>]]
    /\ wire = <<>>
    /\ ChunkIdle
    /\ CodecIdle

\* the five reads of the arm, then SESSION_MANAGER.write().await
LockForPosition(t) ==
    /\ task[t].at = "idle"
    /\ BatchesBegun(Tasks) < MaxBatches
    /\ CanWriteLock
    /\ lock' = lock \cup {t}
    /\ \E p \in TriggerPositions :
          task' = [task EXCEPT ![t] = [at |-> "locked", todo |-> {}, batch |-> @.batch + 1,
                                       trigger |-> p, packet |-> <<>>]]
    /\ UNCHANGED <<wire, conn_vars, chunk_vars, codec_vars>>

\* session.update_position(x, y, z, yaw, pitch)
StorePosition(t) ==
    /\ task[t].at = "locked"
    /\ PositionUser(t) \in DOMAIN sessions
    /\ LET p == task[t].trigger
       IN  sessions' = [sessions EXCEPT ![PositionUser(t)] =
                           UpdatePosition(@, p[1], p[2], p[3], p[4], p[5])]
    /\ task' = [task EXCEPT ![t].at = "stored"]
    /\ UNCHANGED <<now, phase, chan, cclosed, csent, out, username, ka_local, evicted, lastread,
                   lock, wire, chunk_vars, codec_vars>>

\* broadcast_position_updates up to its first await
BuildPositionPacket(t) ==
    /\ task[t].at = "stored"
    /\ LET source_session == sessions[PositionUser(t)]
       IN  task' = [task EXCEPT
                       ![t].at = "sending",
                       ![t].todo = (DOMAIN sessions) \ {PositionUser(t)},
                       ![t].packet =
                           PlayerPositionAndLook(source_session.position[1],
                                                 source_session.position[2],
                                                 source_session.position[3],
                                                 source_session.yaw, source_session.pitch, 0, 0)]
    /\ UNCHANGED <<lock, wire, conn_vars, chunk_vars, codec_vars>>

\* one send of broadcast_packet_except: written, or failed and `?` returns
SendPosition(t) ==
    /\ task[t].at = "sending"
    /\ \E u \in task[t].todo, failed \in BOOLEAN :
        IF failed
        THEN /\ task' = [task EXCEPT ![t].at = "ended", ![t].todo = {}]
             /\ lock' = lock \ {t}
             /\ UNCHANGED wire
        ELSE /\ wire' = Append(wire, [by |-> t, batch |-> task[t].batch, to |-> u,
                                       trigger |-> task[t].trigger,
                                       packet |-> task[t].packet])
             /\ task' = [task EXCEPT ![t].todo = @ \ {u}]
             /\ UNCHANGED lock
    /\ UNCHANGED <<conn_vars, chunk_vars, codec_vars>>

\* the end of the arm: the guard is dropped
UnlockAfterPosition(t) ==
    /\ task[t].at = "sending"
    /\ task[t].todo = {}
    /\ lock' = lock \ {t}
    /\ task' = [task EXCEPT ![t].at = "idle"]
    /\ UNCHANGED <<wire, conn_vars, chunk_vars, codec_vars>>

PositionNext ==
    \/ \E t \in Tasks : LockForPosition(t)
    \/ \E t \in Tasks : StorePosition(t)
    \/ \E t \in Tasks : BuildPositionPacket(t)
    \/ \E t \in Tasks : SendPosition(t)
    \/ \E t \in Tasks : UnlockAfterPosition(t)

PositionSpec == PositionInit /\ [][PositionNext]_vars

(***************************************************************************)
(* new_section_update, has_section and get_section of ChunkDataPacket.     *)
(* None is <<>>.                                                           *)
(***************************************************************************)
NewSectionUpdate(col, sections_to_update) ==
    LET RECURSIVE Pushed(_)
        \* the indices for which a section is pushed, in the order of the pushes
        Pushed(ys) ==
            IF ys = <<>> THEN <<>>
            ELSE IF ys[1] < 16 /\ col.sections[ys[1]] # <<>>
            THEN <<ys[1]>> \o Pushed(Tail(ys))
            ELSE Pushed(Tail(ys))
        Converted(y) ==
            RecalculateBlockCount(
                CopyOf([i \in 0 .. 4095 |->
                           GetGlobalId(ColumnGetBlockState(col, i % 16, y * 16 + (i \div 256),
                                                           (i \div 16) % 16))],
                       WotraCells(col.sections[y]).marked, 4))
        Packet(ys) ==
            [chunk_x |-> 0, chunk_z |-> 0, full_chunk |-> FALSE,
             primary_bit_mask |-> BitsValue({ys[k] : k \in DOMAIN ys}),
             heightmaps |-> <<>>,
             biomes |-> <<>>,
             sections |-> [k \in DOMAIN ys |-> Converted(ys[k])],
             block_entities |-> <<>>]
    IN  Packet(Pushed(sections_to_update))

HasSection(p, y) == IF y >= 16 THEN FALSE ELSE y \in Bits(p.primary_bit_mask)

GetSection(p, y) ==
    IF ~HasSection(p, y) THEN <<>>
    ELSE LET section_index == Cardinality({i \in 0 .. y - 1 : HasSection(p, i)})
         IN  IF section_index < Len(p.sections) THEN p.sections[section_index + 1] ELSE <<>>

\* the section indices that a caller names
UpdateIndices == {0, 4, 16}

\* ChunkDataPacket::new_full_chunk(&column)
BuildFullChunk ==
    /\ column # <<>> /\ built = <<>>
    /\ built' = NewFullChunk(column)
    /\ UNCHANGED <<varint, nbt, conn_vars, lock_vars, chunk_vars>>

\* ChunkDataPacket::new_section_update(&column, &sections_to_update)
BuildSectionUpdate ==
    /\ column # <<>> /\ built = <<>>
    /\ \E n \in 0 .. MaxUpdateLen :
          \E sections_to_update \in [1 .. n -> UpdateIndices] :
              built' = NewSectionUpdate(column, sections_to_update)
    /\ UNCHANGED <<varint, nbt, conn_vars, lock_vars, chunk_vars>>

UpdateNext == SpawnChunk \/ BuildFullChunk \/ BuildSectionUpdate

UpdateSpec == Init /\ [][UpdateNext]_vars

(***************************************************************************)
(* Properties.                                                             *)
(***************************************************************************)
HasPacket(c, name) == \E i \in DOMAIN out[c] : out[c][i].name = name

HasSession(c) == \E u \in DOMAIN sessions : sessions[u].writer = c

PhaseStep(from, to) ==
    <<from, to>> \in {<<"Handshake", "Status">>, <<"Handshake", "Login">>,
                      <<"Status", "Closed">>, <<"Login", "Play">>, <<"Play", "Closed">>,
                      <<"Handshake", "Closed">>, <<"Login", "Closed">>}

(* C1: a connection's phase moves only Handshake -> Status -> Closed or    *)
(* Handshake -> Login -> Play -> Closed, or from Handshake or Login to     *)
(* Closed on an error; no phase is skipped and none is entered twice.      *)
C1_PhaseOrder ==
    [][\A c \in Conns : phase'[c] # phase[c] => PhaseStep(phase[c], phase'[c])]_vars

\* one connection has gone through login and play, the other through status
C1_Witness ==
    \E c, d \in Conns :
        /\ phase[c] = "Closed" /\ HasPacket(c, "PlayerPositionAndLook")
        /\ phase[d] = "Closed" /\ HasPacket(d, "StatusResponse")

(* C2: after a handshake whose next_state is neither 1 nor 2 the           *)
(* connection is closed: nothing is written to it, it enters neither       *)
(* Status nor Login nor Play, and no session is made for it.               *)
C2_InvalidNextStateCloses ==
    \A c \in Conns :
        (csent[c].n >= 1 /\ csent[c].ns \notin {1, 2}) =>
            /\ out[c] = <<>>
            /\ phase[c] \in {"Handshake", "Closed"}
            /\ (chan[c] = <<>> => phase[c] = "Closed")
            /\ ~HasSession(c)

\* the server has read a handshake with next_state 3 from an open connection
C2_Witness ==
    \E c \in Conns :
        csent[c].ns = 3 /\ ~cclosed[c] /\ chan[c] = <<>> /\ phase[c] = "Closed"

(* C3: a connection that has sent a handshake with next_state 1 and then   *)
(* a status request, and stays open, eventually holds exactly one status   *)
(* response with version, players and description.                         *)
SentStatusRequest(c) == csent[c].ns = 1 /\ csent[c].n = 2

StatusResponses(c) == {i \in DOMAIN out[c] : out[c][i] = StatusResponsePacket}

C3_StatusAnswered ==
    \A c \in Conns :
        (SentStatusRequest(c) /\ ~cclosed[c])
            ~> (Cardinality(StatusResponses(c)) = 1 \/ cclosed[c])

(* C4: the Login Success written to a connection that sent a handshake    *)
(* with next_state 2 and then a framed Login Start for username u carries  *)
(* username u and the version 3 uuid of "OfflinePlayer:" followed by u.    *)
C4_LoginSuccessEchoesName ==
    \A c \in Conns : \A i \in DOMAIN out[c] :
        (out[c][i].name = "LoginSuccess" /\ csent[c].ns = 2 /\ csent[c].n >= 2) =>
            /\ out[c][i].username = csent[c].user
            /\ out[c][i].uuid = UuidV3("NAMESPACE_DNS", OfflinePlayerPrefix \o csent[c].user)

BootstrapNames ==
    <<"JoinGame", "HeldItemChange", "DeclareRecipes", "DeclareCommands",
      "UpdateViewPosition", "UpdateLight", "ChunkData", "PlayerPositionAndLook">>

PlayLoopNames == {"KeepAlive", "PlayerPositionAndLook"}

(* C5: on a connection that has reached Play, the packets after Login      *)
(* Success and before the play loop are Join Game, Held Item Change,       *)
(* Declare Recipes, Declare Commands, Update View Position(0,0), Update    *)
(* Light, Chunk Data, Player Position And Look, in this order, each once.  *)
C5_BootstrapOrder ==
    \A c \in Conns :
        (username[c] # <<>> \/ phase[c] = "Play") =>
            /\ Len(out[c]) >= 1 + Len(BootstrapNames)
            /\ out[c][1].name = "LoginSuccess"
            /\ \A i \in DOMAIN BootstrapNames : out[c][i + 1].name = BootstrapNames[i]
            /\ out[c][6].chunk_x = 0 /\ out[c][6].chunk_z = 0
            /\ \A i \in DOMAIN out[c] :
                   i > 1 + Len(BootstrapNames) => out[c][i].name \in PlayLoopNames

\* a connection in Play to which the play loop has written a packet
C5_Witness ==
    \E c \in Conns : phase[c] = "Play" /\ Len(out[c]) > 1 + Len(BootstrapNames)

(* C6: for every session in the manager a keep-alive has been sent, and    *)
(* its time recorded, by the tick that follows the tenth second since the  *)
(* last one, whether or not the client has written anything.               *)
C6_KeepAliveEveryTenSeconds ==
    \A u \in DOMAIN sessions :
        now - sessions[u].last_keep_alive_time <= KeepAliveInterval + TickPeriod

(* C7: no session stays in the manager past the tick at which 30 s have    *)
(* passed since its last keep-alive response: the ticker removes it then.  *)
C7_TimedOutRemoved ==
    \A u \in DOMAIN sessions :
        now - sessions[u].last_keep_alive_response < KeepAliveTimeout

\* the ticker has removed the session of a connection that was sent a keep-alive
C7_Witness ==
    \E c \in evicted : HasPacket(c, "KeepAlive") /\ ~HasSession(c)

(* C8: the task of a connection whose session was evicted for keep-alive   *)
(* silence has exited: its phase is Closed.                                *)
C8_EvictedTaskExits == \A c \in evicted : phase[c] = "Closed"

\* a turn of c's play loop that reads exactly one framed keep-alive response
ReadsKeepAliveFrame(c) ==
    /\ phase[c] = "Play" /\ phase'[c] = "Play"
    /\ chan[c] # <<>> /\ chan'[c] = Tail(chan[c])
    /\ Head(chan[c]).kind[1] = "KeepAlive"
    /\ username[c] \in DOMAIN sessions

ResponseFields(session) ==
    <<session.last_keep_alive_response, session.position, session.yaw, session.pitch>>

(* C9: in Play a framed keep-alive response with the id of the session's   *)
(* last keep-alive sets the session's last_keep_alive_response to the      *)
(* current time; one with another id changes no session.                   *)
C9_KeepAliveResponse ==
    [][\A c \in Conns :
          ReadsKeepAliveFrame(c) =>
              IF Head(chan[c]).kind[2] = sessions[username[c]].last_keep_alive_id
              THEN /\ username[c] \in DOMAIN sessions'
                   /\ sessions'[username[c]].last_keep_alive_response = now
              ELSE /\ DOMAIN sessions' = DOMAIN sessions
                   /\ \A u \in DOMAIN sessions :
                          ResponseFields(sessions'[u]) = ResponseFields(sessions[u])]_vars

\* the frames the client writes with a packet id, and that id
WellFormedFrame(kind) ==
    kind[1] \in {"KeepAlive", "PlayerPosition", "Handshake", "StatusRequest", "LoginStart"}

FramePacketId(kind) ==
    IF kind[1] = "KeepAlive" THEN 15 ELSE IF kind[1] = "PlayerPosition" THEN 17 ELSE 0

(* C10: of the frames one read in Play returned, each was given once to    *)
(* the handler its packet_id selects.                                      *)
C10_DispatchByPacketId ==
    \A c \in Conns :
        LET frames == lastread[c].frames
        IN (frames # <<>> /\ \A i \in DOMAIN frames : WellFormedFrame(frames[i])) =>
               <<lastread[c].arm>> = [i \in DOMAIN frames |-> Arm(FramePacketId(frames[i]))]

\* the Player Position And Look that carries the position the clients send
SentPosition == PlayerPositionAndLook(F64_1_5, F64_64, F64_2_5, F32_0, F32_0, 0, 0)

PositionsSent(c) == Cardinality({i \in DOMAIN out[c] : out[c][i] = SentPosition})

PositionsSentNext(c) == Cardinality({i \in DOMAIN out'[c] : out'[c][i] = SentPosition})

\* c's play loop takes a read whose first bytes are a frame of this kind,
\* while c's session is in the manager
ReadsFirst(c, kind) ==
    /\ phase[c] = "Play"
    /\ chan[c] # <<>> /\ Head(chan[c]).kind[1] = kind
    /\ Len(chan'[c]) < Len(chan[c])
    /\ username[c] \in DOMAIN sessions /\ sessions[username[c]].writer = c

\* the sessions other than c's
Peers(c) == (DOMAIN sessions) \ {username[c]}

(* C11: when a session's client sends a framed Player Position, the        *)
(* session's stored position becomes the one sent, every other session in  *)
(* the manager is written one Player Position And Look carrying it, and    *)
(* the sender is written none.                                             *)
C11_PositionBroadcast ==
    [][\A c \in Conns :
          (ReadsFirst(c, "PlayerPosition") /\ Len(chan[c]) = 1) =>
              /\ username[c] \in DOMAIN sessions'
              /\ sessions'[username[c]].position = <<F64_1_5, F64_64, F64_2_5>>
              /\ sessions'[username[c]].yaw = F32_0
              /\ sessions'[username[c]].pitch = F32_0
              /\ \A u \in Peers(c) :
                     PositionsSentNext(sessions[u].writer) = PositionsSent(sessions[u].writer) + 1
              /\ PositionsSentNext(c) = PositionsSent(c)]_vars

(* C12: after a position broadcast the sender's task is still running and  *)
(* every peer has either been written the packet or, its send having       *)
(* failed, been dropped from the manager; a peer that was written the      *)
(* packet stays in the manager.                                            *)
C12_BroadcastFailureIsolated ==
    [][\A c \in Conns :
          (ReadsFirst(c, "RawPlayerPosition") /\ ~KeepAliveDue(c)) =>
              /\ phase'[c] = "Play"
              /\ \A u \in Peers(c) :
                     IF PositionsSentNext(sessions[u].writer) = PositionsSent(sessions[u].writer) + 1
                     THEN u \in DOMAIN sessions'
                     ELSE u \notin DOMAIN sessions']_vars

(* C13: no session outlives its connection task: the session of a          *)
(* connection whose task has ended is not in the manager.                  *)
C13_NoSessionOutlivesTask ==
    \A c \in Conns : phase[c] = "Closed" => ~HasSession(c)

\* the writes of one critical section are next to one another on the wire
SameBatch(i, j) == wire[i].by = wire[j].by /\ wire[i].batch = wire[j].batch

(* C14: every socket write of the play loop is made by a task that alone   *)
(* holds the manager's lock, from the first send of its batch to the last: *)
(* at most one task is sending and the sends of two batches do not         *)
(* interleave.                                                             *)
C14_WritesUnderLock ==
    /\ \A t \in Tasks : task[t].at \in Sending => lock = {t}
    /\ \A i \in DOMAIN wire : wire[i].holders = {wire[i].by}
    /\ \A i, j, k \in DOMAIN wire : (i < j /\ j < k /\ SameBatch(i, k)) => SameBatch(i, j)

\* two tasks have each written a whole broadcast
C14_Witness ==
    \E i, j, k, l \in DOMAIN wire :
        /\ i < j /\ j < k /\ k < l
        /\ wire[i].at = "broadcast" /\ SameBatch(i, j)
        /\ wire[k].at = "broadcast" /\ SameBatch(k, l)
        /\ wire[i].by # wire[k].by

(* C15: immediately after set_block_state(x, y, z, s) on a column,         *)
(* get_block_state(x, y, z) returns s, whatever was set before and however *)
(* many distinct states the section holds.                                 *)
C15_GetAfterSet ==
    (column # <<>> /\ column.call # <<>>) =>
        LET cell == column.call[1]
        IN  ColumnGetBlockState(column, cell[1], cell[2], cell[3]) = column.call[2]

\* the cells of a section for which get_block_state_at does not return air
NonAirCells(s) ==
    {i \in 0 .. 4095 : ~IsAir(WotraGetBlockStateAt(s, i % 16, i \div 256, (i \div 16) % 16))}

(* C16: after every set_block_state the block_count of each section is the *)
(* number of its cells whose get is not air.                               *)
C16_BlockCountIsNonAir ==
    column # <<>> =>
        \A section_y \in 0 .. 15 :
            column.sections[section_y] # <<>> =>
                column.sections[section_y].block_count
                    = Cardinality(NonAirCells(column.sections[section_y]))

\* the state that the section s holds at a cell
SectionGet(s, cell) == PacketGetBlockState(s, cell[1], cell[2], cell[3])

\* the call made in this step puts a new state into a full indirect palette
FullPaletteInsert ==
    /\ section # <<>> /\ section' # section
    /\ ~section.palette.direct
    /\ Len(section.palette.palette) >= Pow2(section.palette.bits_per_block)
    /\ StateToIndex(section.palette.palette, section'.call[2]) = {}

(* C17: a set_block_state of the packet section that inserts a state into  *)
(* a full indirect palette raises bits_per_block by one (to 14 from 8),    *)
(* leaves every other cell decoding to the state it held, and makes the    *)
(* written cell decode to the new state.                                   *)
C17_ResizeKeepsCells ==
    [][FullPaletteInsert =>
        /\ section'.bits_per_block
               = IF section.bits_per_block = 8 THEN 14 ELSE section.bits_per_block + 1
        /\ \A cell \in SectionCells \ {section'.call[1]} :
               SectionGet(section', cell) = SectionGet(section, cell)
        /\ SectionGet(section', section'.call[1]) = section'.call[2]]_vars

(* C18: in every state of a packet section, the fresh one included, each   *)
(* value of the data array is below the palette length when the palette is *)
(* indirect and is the id of a block state when it is direct.              *)
C18_ValuesInPalette ==
    section # <<>> =>
        \A i \in 0 .. 4095 :
            IF section.palette.direct
            THEN FromGlobalId(PacketGetDataValue(section, i)) \in BlockStates
            ELSE PacketGetDataValue(section, i) < Len(section.palette.palette)

\* entry k of a long array read as consecutive entries of 9 bits
NineBits(v, k) ==
    BitsValue({b \in 0 .. 8 : <<(9 * k + b) \div 64, (9 * k + b) % 64>> \in v.ones})

\* the greatest height at which get_block_state is not air, 0 when there is none
TopBlock(col, x, z) ==
    LET blocks == {y \in 0 .. 255 : ~IsAir(ColumnGetBlockState(col, x, y, z))}
    IN  IF blocks = {} THEN 0 ELSE CHOOSE h \in blocks : \A g \in blocks : g <= h

(* C19: after calculate_heightmaps, entry x + 16 * z of MOTION_BLOCKING,   *)
(* read as 9 bits per entry from the 36 longs, is the greatest height of   *)
(* a block of the column (x, z) that is not air, or 0.                     *)
C19_MotionBlocking ==
    [][(column # <<>> /\ column'.heightmaps # column.heightmaps) =>
        \A x \in 0 .. 15, z \in 0 .. 15 :
            NineBits(column'.heightmaps[1].MOTION_BLOCKING, x + 16 * z)
                = TopBlock(column', x, z)]_vars

(* C20: reading back the chunk data packet written for a column whose     *)
(* heightmaps were calculated succeeds, consumes exactly the bytes         *)
(* written, and gives sections that return, at every cell, the block state *)
(* of the sections that were written.                                      *)
C20_RoundTrip ==
    (decoded # <<>> /\ column.heightmaps # <<>>) =>
        /\ decoded.ok
        /\ decoded.cur = Len(buffer)
        /\ LET written == NewFullChunk(column).sections
           IN  /\ Len(decoded.packet.sections) = Len(written)
               /\ \A k \in DOMAIN written, i \in 0 .. 4095 :
                      PacketCell(decoded.packet.sections[k], i) = PacketCell(written[k], i)

(* C21: for every i32 x, negative values included, write_varint ends       *)
(* having appended 1 to 5 bytes, exactly 5 for x < 0, and read_varint on   *)
(* those bytes returns x.                                                  *)
C21_VarintRoundTrip ==
    (varint # <<>> /\ ~varint.raw /\ varint.at # "value") =>
        /\ varint.done
        /\ Len(varint.bytes) \in 1 .. 5
        /\ varint.value < 0 => Len(varint.bytes) = 5
        /\ varint.at = "read" => varint.result.ok /\ varint.result.val = varint.value

(* C22: read_varint returns no value for an encoding that is not           *)
(* terminated: five bytes in a row with the continuation bit give          *)
(* InvalidData, and a buffer that ends before a byte without the           *)
(* continuation bit gives UnexpectedEof.                                   *)
C22_UnterminatedVarintFails ==
    (varint # <<>> /\ varint.raw /\ varint.at = "read") =>
        LET bytes == varint.bytes
            n     == Len(bytes)
            r     == varint.result
        IN  /\ (n >= 5 /\ \A i \in 1 .. 5 : bytes[i] >= 128) =>
                   ~r.ok /\ r.err = "InvalidData"
            /\ (n < 5 /\ \A i \in 1 .. n : bytes[i] >= 128) =>
                   ~r.ok /\ r.err = "UnexpectedEof"
            /\ r.ok => \E i \in 1 .. n : i <= 5 /\ bytes[i] < 128

C22_Witness ==
    /\ varint # <<>>
    /\ varint.raw
    /\ varint.at = "read"
    /\ varint.bytes = <<255, 255, 255, 255, 255, 1>>
    /\ varint.result.err = "InvalidData"

(* C23: for every tag t built from the constructors, End and nested        *)
(* Compounds and Lists included, and every name, Tag::read on the bytes of *)
(* t.write(name) returns (name, t).                                        *)
C23_TagRoundTrip ==
    (nbt # <<>> /\ nbt.at = "read") =>
        /\ nbt.result.ok
        /\ nbt.result.name = nbt.name
        /\ nbt.result.tag = nbt.tag

\* the step is a call of optimize_palette on the section at section height y
Optimized(y) ==
    /\ column # <<>>
    /\ column' # column
    /\ Len(column'.call) = 4
    /\ column'.call[2] = y

(* C24: optimize_palette changes no get result of the section, in its      *)
(* first call and in a second call that follows it, and that second call   *)
(* reports no change.                                                      *)
C24_OptimizeIdempotent ==
    [][\A y \in 0 .. 15 :
          Optimized(y) =>
              /\ \/ column'.sections[y] = column.sections[y]
                 \/ \A i \in 0 .. 4095 :
                       WotraStateAt(column'.sections[y], i) = WotraStateAt(column.sections[y], i)
              /\ column'.call[4] >= 2 => ~column'.call[3]]_vars

C24_Witness ==
    /\ column # <<>>
    /\ Len(column.call) = 4
    /\ column.sections[column.call[2]].palette # <<>>
    /\ column.call[4] = 2
    /\ ~column.call[3]

(* C25: for each connection that is in the play loop and was not evicted   *)
(* for timeout, the manager's entry under its username is the session that *)
(* the connection created, whatever other logins and disconnections there  *)
(* are.                                                                    *)
C25_EntryIsOwnSession ==
    \A c \in Conns :
        (phase[c] = "Play" /\ c \notin evicted) =>
            /\ username[c] \in DOMAIN sessions
            /\ sessions[username[c]].writer = c

(* C26: a session is evicted for timeout only after the server has sent it *)
(* a Keep Alive (one that then stayed unanswered for 30 s): a session to   *)
(* which no Keep Alive was sent yet is never evicted by the ticker.        *)
C26_EvictedWasSentKeepAlive ==
    \A c \in evicted : HasPacket(c, "KeepAlive")

(* C27: last_keep_alive_response of a session is refreshed only by a       *)
(* response that carries an id the server sent to that session: before the *)
(* first Keep Alive was sent to it nothing refreshes it.                   *)
C27_RefreshNeedsSentId ==
    [][\A u \in (DOMAIN sessions) \cap (DOMAIN sessions') :
          (/\ sessions'[u].writer = sessions[u].writer
           /\ sessions'[u].last_keep_alive_response # sessions[u].last_keep_alive_response)
              => HasPacket(sessions[u].writer, "KeepAlive")]_vars

(* The cells other than target at which two states of one section can      *)
(* differ: the cells that hold a one bit in either, and one cell that      *)
(* holds none in both (all such cells hold the value 0 in both).           *)
OtherCells(old, new, target) ==
    LET marked == WotraCells(old).marked \cup WotraCells(new).marked
    IN  (marked \cup {CHOOSE i \in 0 .. Cardinality(marked) + 1 : i \notin marked \cup {target}})
            \ {target}

(* C28: set_block_state(x, y, z, s) changes the result of get only at      *)
(* (x, y, z): every other cell of the section reads as before, so a cell   *)
(* never written still reads as air after the first non-air state is set.  *)
C28_SetChangesOneCell ==
    [][(column # <<>> /\ column' # column) =>
          LET cell == column'.call[1]
              y == cell[2] \div 16
              old == IF column.sections[y] = <<>> THEN WotraSection ELSE column.sections[y]
              new == column'.sections[y]
          IN  \A i \in OtherCells(old, new, CellIndex(cell[1], cell[2] % 16, cell[3])) :
                  WotraStateAt(new, i) = WotraStateAt(old, i)]_vars

(* C29: every Player Position And Look broadcast on behalf of a session    *)
(* carries the coordinates and the rotation of the Player Position packet  *)
(* that triggered it, whatever the other tasks do in between.              *)
C29_BroadcastCarriesTrigger ==
    \A i \in DOMAIN wire :
        LET p == wire[i].trigger
        IN  wire[i].packet = PlayerPositionAndLook(p[1], p[2], p[3], p[4], p[5], 0, 0)

\* the two tasks that share a session have each broadcast a position of their own
C29_Witness ==
    \E i, j \in DOMAIN wire :
        /\ i < j
        /\ wire[i].by = 1
        /\ wire[j].by = 2
        /\ wire[i].trigger # wire[j].trigger

(* C30: in every packet built by new_full_chunk or new_section_update, for *)
(* any list of section indices, the number of sections is the number of    *)
(* bits set in primary_bit_mask and get_section(y) returns the section     *)
(* made from the column's section y exactly when bit y is set.             *)
C30_SectionsMatchMask ==
    built # <<>> =>
        /\ Len(built.sections) = Cardinality(Bits(built.primary_bit_mask))
        /\ \A y \in 0 .. 15 :
              IF y \in Bits(built.primary_bit_mask)
              THEN /\ column.sections[y] # <<>>
                   /\ GetSection(built, y) = NewSectionUpdate(column, <<y>>).sections[1]
              ELSE GetSection(built, y) = <<>>

====
